---- MODULE Spec2Model ----
(***************************************************************************)
(* Verification model of the etherfi-buddy backend aggregation core:       *)
(*   - the composite risk scorer (main.py, enhanced_risk_analysis.py),     *)
(*   - the validator-uptime and AVS-concentration clients,                 *)
(*   - the portfolio analyzer (enhanced_portfolio_analyzer.py),            *)
(*   - the TTL cache of etherfi_service.py.                                *)
(*                                                                         *)
(* Number representation (Python floats are modelled by exact decimals):   *)
(*   uptime percentages     : hundredths of a percent   (99.3  -> 9930)    *)
(*   AVS allocation shares  : tenths of a percent       (46.2  -> 462)     *)
(*   HHI                    : ten-thousandths           (0.29  -> 2900)    *)
(*   scores / health indices: plain integers                               *)
(***************************************************************************)
EXTENDS Integers, Sequences, FiniteSets, TLC

VARIABLES
    \* ---- pure scoring functions (SpecScore) ----
    score_pc,            \* "input" | "scored"
    operator_uptime,     \* argument, hundredths of a percent
    largest_avs_pct,     \* argument, tenths of a percent
    slashing_score,      \* argument, integer
    liquidity_health,    \* argument, integer
    legacy_result,       \* value returned by main.calculate_risk_score
    enhanced_result,     \* value returned by EnhancedRiskAnalyzer.calculate_overall_risk_score
    \* ---- /api/risk-analysis-enhanced request (SpecRisk) ----
    risk_pc,             \* position of the request coroutine
    address,             \* the address the request is for
    enhanced_available,  \* main.ENHANCED_RISK_AVAILABLE
    real_data_available, \* enhanced_risk_analysis.REAL_DATA_AVAILABLE
    enhanced_error,      \* generate_comprehensive_analysis raised
    failed_calls,        \* client calls of this request that raised
    uptime_metrics,      \* dict returned by BeaconchainClient.calculate_uptime_metrics
    uptime_data,         \* OperatorUptimeData tile
    avs_data,            \* AVSConcentrationData tile
    liquidity_data,      \* LiquidityDepthData tile
    distribution_data,   \* DistributionData
    slashing_data,       \* SlashingProxyData tile
    response,            \* RiskAnalysisResponse handed to the caller
    \* ---- /api/portfolio-analysis-enhanced request (SpecPortfolio) ----
    port_pc,             \* position of the request coroutine
    analyzer_real_data,  \* enhanced_portfolio_analyzer.REAL_DATA_AVAILABLE
    holdings,            \* [eth_balance, eeth_balance, weeth_balance, liquid_usd_balance]
    prices,              \* dict returned by _get_current_prices
    apy_data,            \* dict returned by _get_apy_data
    risk_metrics,        \* dict returned by _get_risk_metrics
    liquidity_info,      \* dict returned by _get_liquidity_data
    restaking_data,      \* dict returned by _get_restaking_data
    fallback_sources,    \* sources whose values of this request are static fallbacks
    analysis,            \* PortfolioAnalysisResult returned by analyze_portfolio
    port_exception,      \* exception that left analyze_portfolio, or "none"
    port_clock,          \* datetime.now() as the analyzer reads it
    analysis_again,      \* result of a second, identical call of analyze_portfolio
    \* ---- etherfi_service.py response cache (SpecCache) ----
    cache,               \* _cache: per key, whether present, its timestamp and data
    now,                 \* datetime.now(), in minutes
    caller_pc,           \* per coroutine: idle, or awaiting the HTTP response of a key
    last_return,         \* what the most recent completed getter call returned
    \* ---- the diversification score of two asset sets (SpecDiversification) ----
    div_pc,              \* "input" before the two scores are computed, "scored" after
    values_a,            \* value_usd of the assets of the first set
    values_b,            \* value_usd of the assets of the second set
    div_a,               \* diversification of the first set
    div_b,               \* diversification of the second set
    \* ---- the weighted metrics of one asset list (SpecMetrics) ----
    met_pc,              \* "input" before the metrics are computed, "done" after
    met_assets,          \* the assets list: balance, price, apy and the two scores
    met_metrics,         \* blended_apy, overall_risk_score and liquidity_health
    \* ---- sources with a credential or configuration (SpecConfig) ----
    config,              \* the API keys of the environment and REAL_DATA_AVAILABLE
    weeth_cache,         \* the _cache entry of "weeth_rate"
    cfg_now,             \* the clock, in minutes
    cfg_return,          \* what the most recent fetch returned and the requests it sent
    \* ---- the slashing proxy of one set of inputs (SpecSlashing) ----
    sl_pc,               \* "input", then "client", "tile", "legacy", "done"
    sl_uptime,           \* operator uptime, hundredths of a percent
    sl_diversity,        \* client_diversity_score
    sl_dvt,              \* dvt_enabled
    sl_audit,            \* avs_audit_status
    sl_client,           \* dict returned by calculate_slashing_risk_score
    sl_tile,             \* get_slashing_proxy_data as the analyzer calls it, clients present
    sl_legacy,           \* the two legacy tiles: no-client branch and main.risk_analysis
    \* ---- pool slippage and the two liquidity health indexes (SpecLiquidity) ----
    lq_pc,               \* "pools" or "venues" at the start, "done" at the end
    lq_pools,            \* two pools of one fee tier: depth in $1,000 and feeTier
    lq_details,          \* pool_details and best_pool of calculate_liquidity_metrics
    lq_venues,           \* the venues: depth in $100,000 and slippage_bps
    lq_legacy_index,     \* main.calculate_liquidity_health_index of the venues
    lq_enhanced_index,   \* health_index of get_liquidity_depth_data for the venues
    \* ---- the per-product v2 endpoints (SpecEndpoints) ----
    ep_pc,               \* "request", "live", "summary", "done"
    ep_product,          \* the {product} path parameter, a sequence of characters
    ep_prices,           \* the products DefiLlama returns a price for
    ep_pools,            \* the products DefiLlama lists a yield pool for
    ep_rows,             \* the products with a price_history row a day / a week ago
    ep_live,             \* the answer of GET /prices/live/{product}
    ep_summary,          \* the answer of GET /summary/{product}
    ep_summaries,        \* the answer of GET /summary
    \* ---- DataFetcherService and its database session (SpecFetcher) ----
    df_pc,               \* where start() is: "init", "prices", "apy", "sleeping", "exited"
    df_running,          \* self.running
    df_now,              \* time.time(), in fetch intervals
    df_cycles,           \* the calls of run_fetch_cycle so far
    df_stop,             \* the first call of stop(): where start() was, and df_cycles then
    df_session,          \* db of run_fetch_cycle: pending objects, failed transaction
    df_rows,             \* the committed rows of price_history and apy_history
    df_log               \* this cycle's inserts: row, outcome, the rows before and after

scoreVars == <<score_pc, operator_uptime, largest_avs_pct, slashing_score,
               liquidity_health, legacy_result, enhanced_result>>

riskVars == <<risk_pc, address, enhanced_available, real_data_available, enhanced_error, failed_calls,
              uptime_metrics, uptime_data, avs_data, liquidity_data,
              distribution_data, slashing_data, response>>

portVars == <<port_pc, analyzer_real_data, holdings, prices, apy_data, risk_metrics,
              liquidity_info, restaking_data, fallback_sources, analysis, port_exception,
              port_clock, analysis_again>>

cacheVars == <<cache, now, caller_pc, last_return>>

divVars == <<div_pc, values_a, values_b, div_a, div_b>>

metVars == <<met_pc, met_assets, met_metrics>>

cfgVars == <<config, weeth_cache, cfg_now, cfg_return>>

slVars == <<sl_pc, sl_uptime, sl_diversity, sl_dvt, sl_audit, sl_client,
            sl_tile, sl_legacy>>

lqVars == <<lq_pc, lq_pools, lq_details, lq_venues, lq_legacy_index,
            lq_enhanced_index>>

epVars == <<ep_pc, ep_product, ep_prices, ep_pools, ep_rows, ep_live,
            ep_summary, ep_summaries>>

dfVars == <<df_pc, df_running, df_now, df_cycles, df_stop, df_session, df_rows,
            df_log>>

vars == <<scoreVars, riskVars, portVars, cacheVars, divVars, metVars,
          cfgVars, slVars, lqVars, epVars, dfVars>>

(***************************************************************************)
(* Bounds of the model.                                                    *)
(***************************************************************************)
\* how many steps of 50 percentage points the scorer inputs leave [0,100]
MaxOutOfRange == 1

\* validators in one performance payload, and attestations counted per validator
MaxValidators == 2

MaxAttestations == 2

MaxBalance == 1

\* clock ticks that can pass between two calls of analyze_portfolio
MaxElapsed == 1

\* largest value_usd of an asset in the two sets whose diversification is compared
MaxAssetValue == 4

\* minutes the clock of the response cache runs for
MaxClock == 6

(***************************************************************************)
(* Arithmetic helpers: Python's max, min, int() and round().               *)
(***************************************************************************)
Max(a, b) == IF a >= b THEN a ELSE b

Min(a, b) == IF a <= b THEN a ELSE b

Abs(a) == IF a >= 0 THEN a ELSE -a

\* int(n / d) for d > 0: Python's int() truncates toward zero
TruncDiv(n, d) == IF n >= 0 THEN n \div d ELSE -((-n) \div d)

\* round(n / d) for d > 0: nearest integer, ties to the even one
RoundDiv(n, d) ==
    LET q == n \div d          \* floor
        r == n % d             \* 0 <= r < d
    IN  IF 2 * r < d THEN q
        ELSE IF 2 * r > d THEN q + 1
        ELSE IF q % 2 = 0 THEN q ELSE q + 1

(***************************************************************************)
(* Python's float: IEEE-754 binary64 arithmetic on non-negative finite     *)
(* values.  Every operation returns the exact result rounded to 53         *)
(* significant bits, ties to even.  A natural number is the sequence of    *)
(* its digits in radix 2^13, lowest first, without leading zeros; a float  *)
(* is m * 2^e with m odd (or m = 0 and e = 0).                             *)
(***************************************************************************)
Radix == 2^13

RECURSIVE Trim(_)
Trim(a) ==
    IF a = <<>> THEN <<>>
    ELSE IF a[Len(a)] = 0 THEN Trim(SubSeq(a, 1, Len(a) - 1)) ELSE a

RECURSIVE DigitsOf(_)
DigitsOf(n) == IF n = 0 THEN <<>> ELSE <<n % Radix>> \o DigitsOf(n \div Radix)

RECURSIVE IntOf(_)
IntOf(a) == IF a = <<>> THEN 0 ELSE Head(a) + Radix * IntOf(Tail(a))

RECURSIVE IntBitLen(_)
IntBitLen(n) == IF n = 0 THEN 0 ELSE 1 + IntBitLen(n \div 2)

BitLen(a) == IF a = <<>> THEN 0 ELSE (Len(a) - 1) * 13 + IntBitLen(a[Len(a)])

DigitAt(a, i) == IF i <= Len(a) THEN a[i] ELSE 0

RECURSIVE AddFrom(_, _, _, _)
AddFrom(a, b, i, carry) ==
    IF i > Len(a) /\ i > Len(b) THEN (IF carry = 0 THEN <<>> ELSE <<carry>>)
    ELSE LET sum == DigitAt(a, i) + DigitAt(b, i) + carry
         IN  <<sum % Radix>> \o AddFrom(a, b, i + 1, sum \div Radix)

BAdd(a, b) == AddFrom(a, b, 1, 0)

RECURSIVE SubFrom(_, _, _, _)
SubFrom(a, b, i, borrow) ==
    IF i > Len(a) THEN <<>>
    ELSE LET diff == DigitAt(a, i) - DigitAt(b, i) - borrow
         IN  <<diff % Radix>> \o SubFrom(a, b, i + 1, IF diff < 0 THEN 1 ELSE 0)

\* a - b for a >= b
BSub(a, b) == Trim(SubFrom(a, b, 1, 0))

RECURSIVE LessFrom(_, _, _)
LessFrom(a, b, i) ==
    IF i = 0 THEN FALSE
    ELSE IF a[i] # b[i] THEN a[i] < b[i] ELSE LessFrom(a, b, i - 1)

BLess(a, b) == IF Len(a) # Len(b) THEN Len(a) < Len(b) ELSE LessFrom(a, b, Len(a))

RECURSIVE MulSmallFrom(_, _, _, _)
MulSmallFrom(a, d, i, carry) ==
    IF i > Len(a) THEN (IF carry = 0 THEN <<>> ELSE <<carry>>)
    ELSE LET prod == a[i] * d + carry
         IN  <<prod % Radix>> \o MulSmallFrom(a, d, i + 1, prod \div Radix)

\* a * d for one digit d
MulSmall(a, d) == IF d = 0 THEN <<>> ELSE MulSmallFrom(a, d, 1, 0)

RECURSIVE DivSmallFrom(_, _, _, _)
DivSmallFrom(a, d, i, rem) ==
    IF i = 0 THEN [q |-> <<>>, r |-> rem]
    ELSE LET part == rem * Radix + a[i]
             rest == DivSmallFrom(a, d, i - 1, part % d)
         IN  [q |-> rest.q \o <<part \div d>>, r |-> rest.r]

\* quotient and remainder of a by an integer 0 < d < 2^18
DivSmallMod(a, d) ==
    LET res == DivSmallFrom(a, d, Len(a), 0) IN [q |-> Trim(res.q), r |-> DigitsOf(res.r)]

DivSmall(a, d) == DivSmallMod(a, d).q

Shl(a, k) ==
    IF a = <<>> THEN <<>> ELSE [i \in 1..(k \div 13) |-> 0] \o MulSmall(a, 2^(k % 13))

Shr(a, k) ==
    IF k \div 13 >= Len(a) THEN <<>>
    ELSE DivSmall(SubSeq(a, k \div 13 + 1, Len(a)), 2^(k % 13))

RECURSIVE BMul(_, _)
BMul(a, b) ==
    IF b = <<>> THEN <<>>
    ELSE LET rest == BMul(a, Tail(b))
         IN  BAdd(MulSmall(a, Head(b)), IF rest = <<>> THEN <<>> ELSE <<0>> \o rest)

RECURSIVE QuotientDigit(_, _, _, _)
\* the largest d in lo..hi with d * b <= r
QuotientDigit(r, b, lo, hi) ==
    IF lo = hi THEN lo
    ELSE LET mid == (lo + hi + 1) \div 2
         IN  IF BLess(r, MulSmall(b, mid)) THEN QuotientDigit(r, b, lo, mid - 1)
             ELSE QuotientDigit(r, b, mid, hi)

RECURSIVE DivFrom(_, _, _, _)
\* long division of a by b, from digit i of a downwards
DivFrom(a, b, i, r) ==
    IF i = 0 THEN [q |-> <<>>, r |-> r]
    ELSE LET r2 == Trim(<<a[i]>> \o r)
             d == QuotientDigit(r2, b, 0, Radix - 1)
             rest == DivFrom(a, b, i - 1, BSub(r2, MulSmall(b, d)))
         IN  [q |-> rest.q \o <<d>>, r |-> rest.r]

BDivMod(a, b) ==
    LET d == DivFrom(a, b, Len(a), <<>>)
    IN  IF BitLen(b) <= 18 THEN DivSmallMod(a, IntOf(b))
        ELSE [q |-> Trim(d.q), r |-> d.r]

RECURSIVE LowZeroDigits(_)
LowZeroDigits(a) == IF Head(a) # 0 THEN 0 ELSE 1 + LowZeroDigits(Tail(a))

RECURSIVE LowZeroBits(_)
LowZeroBits(n) == IF n % 2 = 1 THEN 0 ELSE 1 + LowZeroBits(n \div 2)

\* m * 2^e with the low zero bits of m moved into the exponent
Norm(m, e) ==
    LET z == LowZeroDigits(m)
        b == LowZeroBits(m[z + 1])
    IN  IF m = <<>> THEN [m |-> <<>>, e |-> 0]
        ELSE [m |-> Shr(m, 13 * z + b), e |-> e + 13 * z + b]

\* m * 2^e, and a little more if sticky, rounded to 53 bits
RoundFloat(m, e, sticky) ==
    LET n == BitLen(m)
        k == n - 53
        keep == Shr(m, k)
        low == BSub(m, Shl(keep, k))
        half == Shl(<<1>>, k - 1)
        up == IF BLess(low, half) THEN FALSE
              ELSE IF low = half THEN sticky \/ keep[1] % 2 = 1
              ELSE TRUE
        kept == IF up THEN BAdd(keep, <<1>>) ELSE keep
    IN  IF m = <<>> THEN [m |-> <<>>, e |-> 0]
        ELSE IF n <= 53 THEN Norm(m, e)
        ELSE Norm(kept, e + k)

FloatOf(n) == RoundFloat(DigitsOf(n), 0, FALSE)

FZero == [m |-> <<>>, e |-> 0]

FMul(x, y) ==
    IF x.m = <<>> \/ y.m = <<>> THEN FZero
    ELSE RoundFloat(BMul(x.m, y.m), x.e + y.e, FALSE)

FAdd(x, y) ==
    LET e == Min(x.e, y.e)
    IN  IF x.m = <<>> THEN y
        ELSE IF y.m = <<>> THEN x
        ELSE RoundFloat(BAdd(Shl(x.m, x.e - e), Shl(y.m, y.e - e)), e, FALSE)

\* x - y for x >= y
FSub(x, y) ==
    LET e == Min(x.e, y.e)
    IN  IF y.m = <<>> THEN x
        ELSE IF x = y THEN FZero
        ELSE RoundFloat(BSub(Shl(x.m, x.e - e), Shl(y.m, y.e - e)), e, FALSE)

\* x / y for y # 0
FDiv(x, y) ==
    LET s == Max(0, 56 + BitLen(y.m) - BitLen(x.m))
        d == BDivMod(Shl(x.m, s), y.m)
    IN  CASE y.m # <<>> ->
             IF x.m = <<>> THEN FZero
             ELSE RoundFloat(d.q, x.e - y.e - s, d.r # <<>>)

FLess(x, y) ==
    LET e == Min(x.e, y.e)
    IN  IF y.m = <<>> THEN FALSE
        ELSE IF x.m = <<>> THEN TRUE
        ELSE BLess(Shl(x.m, x.e - e), Shl(y.m, y.e - e))

\* int(x)
FInt(x) ==
    IF x.m = <<>> THEN 0
    ELSE IF x.e >= 0 THEN IntOf(Shl(x.m, x.e)) ELSE IntOf(Shr(x.m, -x.e))

\* x / y of two integers, which is also the float a decimal literal x/y denotes
FRatio(x, y) == FDiv(FloatOf(x), FloatOf(y))

RECURSIVE FSum(_)
\* sum(xs): 0 + xs[1] + xs[2] + ..., left to right
FSum(xs) ==
    IF xs = <<>> THEN FZero ELSE FAdd(FSum(SubSeq(xs, 1, Len(xs) - 1)), xs[Len(xs)])

NoResult == [score |-> -1, grade |-> "none", top_reasons |-> <<>>]

(***************************************************************************)
(* main.py: calculate_risk_score                                           *)
(***************************************************************************)
AllClearReasons == <<"Low overall risk across all metrics",
                     "Strong operator performance",
                     "Well-diversified AVS allocation">>

\* reasons[:3]
FirstThree(s) == IF Len(s) <= 3 THEN s ELSE SubSeq(s, 1, 3)

\* uptime_risk + concentration_risk + slashing_risk + liquidity_risk, in hundredths
RawRisk100(uptime, share, slashing, liquidity) ==
      Max(0, 10000 - uptime) * 2
    + Min(share, 1000) * 5
    + slashing * 30
    + Max(0, 100 - liquidity) * 30

\* score = max(0, min(100, score))
ClampScore(score) == Max(0, Min(100, score))

\* the grade with its two comparisons made inclusive
GradeOfInclusive(score) ==
    IF score <= 35 THEN "Safe" ELSE IF score <= 65 THEN "Moderate" ELSE "High"

GradeOf(score) ==
    IF score < 35 THEN "Safe" ELSE IF score < 65 THEN "Moderate" ELSE "High"

\* the reasons with the uptime test moved in front of the concentration test
ReasonsOfUptimeFirst(uptime, share, slashing, liquidity) ==
    LET r1 == IF share > 500 THEN <<"High AVS concentration">> ELSE <<>>
        r2 == IF liquidity < 70 THEN <<"Moderate liquidity depth">> ELSE <<>>
        r3 == IF uptime < 9950 THEN <<"Operator uptime below optimal">> ELSE <<>>
        r4 == IF slashing > 30 THEN <<"Elevated slashing risk score">> ELSE <<>>
        reasons == r3 \o r1 \o r2 \o r4
    IN  IF reasons = <<>> THEN AllClearReasons ELSE reasons

ReasonsOf(uptime, share, slashing, liquidity) ==
    LET r1 == IF share > 500 THEN <<"High AVS concentration">> ELSE <<>>
        r2 == IF liquidity < 70 THEN <<"Moderate liquidity depth">> ELSE <<>>
        r3 == IF uptime < 9950 THEN <<"Operator uptime below optimal">> ELSE <<>>
        r4 == IF slashing > 30 THEN <<"Elevated slashing risk score">> ELSE <<>>
        reasons == r1 \o r2 \o r3 \o r4
    IN  IF reasons = <<>> THEN AllClearReasons ELSE reasons

\* calculate_risk_score with the clamp of line 484 left out
calculate_risk_score_unclamped(uptime, share, slashing, liquidity) ==
    LET score == TruncDiv(RawRisk100(uptime, share, slashing, liquidity), 100)
    IN  [score       |-> score,
         grade       |-> GradeOf(score),
         top_reasons |-> FirstThree(ReasonsOf(uptime, share, slashing, liquidity))]

calculate_risk_score(uptime, share, slashing, liquidity) ==
    LET score == ClampScore(TruncDiv(RawRisk100(uptime, share, slashing, liquidity), 100))
    IN  [score       |-> score,
         grade       |-> GradeOf(score),
         top_reasons |-> FirstThree(ReasonsOf(uptime, share, slashing, liquidity))]

(***************************************************************************)
(* enhanced_risk_analysis.py: EnhancedRiskAnalyzer.calculate_overall_risk_score *)
(***************************************************************************)
calculate_overall_risk_score(uptime, share, slashing, liquidity) ==
    LET uptime_risk100        == Max(0, 10000 - uptime) * 2
        concentration_risk100 == Min(share, 1000) * 5
        slashing_risk100      == slashing * 30
        liquidity_risk100     == Max(0, 100 - liquidity) * 30
        score == ClampScore(TruncDiv(uptime_risk100 + concentration_risk100
                                     + slashing_risk100 + liquidity_risk100, 100))
    IN  [score       |-> score,
         grade       |-> GradeOf(score),
         top_reasons |-> FirstThree(ReasonsOf(uptime, share, slashing, liquidity))]

(***************************************************************************)
(* An exception that leaves a function instead of a return value.          *)
(***************************************************************************)
Raise == [exception |-> TRUE]

IsRaise(v) == "exception" \in DOMAIN v

(***************************************************************************)
(* beaconchain_client.py: BeaconchainClient                                *)
(*                                                                         *)
(* performance_data is what get_validator_performance returns:             *)
(*   [kind |-> "empty"]              {} (HTTP error, caught in lines 47-52)*)
(*   [kind |-> "no_data"]            a JSON object without a "data" key    *)
(*   [kind |-> "data", data |-> s]   "data": s, s a list of entries        *)
(*   [kind |-> "bad_data"]           "data" is not iterable (e.g. null)    *)
(* An entry is [attestations |-> a, missed_attestations |-> m] (a missing  *)
(* key reads as 0, line 144-145) or JunkEntry, a non-dict the loop skips.  *)
(***************************************************************************)
JunkEntry == [junk |-> TRUE]

RECURSIVE SumField(_, _)
SumField(data, field) ==
    IF data = <<>> THEN 0
    ELSE (IF "junk" \in DOMAIN Head(data) THEN 0 ELSE Head(data)[field])
         + SumField(Tail(data), field)

UptimeFallbackMetrics ==
    [uptime_pct |-> 9950, missed_attestations |-> 15, total_attestations |-> 3000,
     data_source |-> "fallback"]

calculate_uptime_metrics(performance_data) ==
    IF performance_data.kind \in {"empty", "no_data"} THEN UptimeFallbackMetrics
    ELSE IF performance_data.kind = "bad_data" THEN Raise
    ELSE LET total_attestations  == SumField(performance_data.data, "attestations")
             missed_attestations == SumField(performance_data.data, "missed_attestations")
             uptime_pct == IF total_attestations > 0
                           THEN RoundDiv((total_attestations - missed_attestations) * 10000,
                                         total_attestations)
                           ELSE 10000
         IN  [uptime_pct |-> uptime_pct,
              missed_attestations |-> missed_attestations,
              total_attestations |-> total_attestations,
              data_source |-> "beaconcha.in"]

\* check_dvt_protection returns a fixed dict
check_dvt_protection == [dvt_enabled |-> TRUE]

(***************************************************************************)
(* eigenexplorer_client.py: EigenExplorerClient                            *)
(***************************************************************************)
\* get_avs_operators: the allocation_pct of its active_avs, tenths of a percent
MockActiveAvs == <<462, 309, 229>>

RECURSIVE SumSquares(_)
SumSquares(pcts) ==
    IF pcts = <<>> THEN 0 ELSE Head(pcts) * Head(pcts) + SumSquares(Tail(pcts))

RECURSIVE SeqMax(_)
SeqMax(pcts) ==
    IF Len(pcts) = 1 THEN Head(pcts) ELSE Max(Head(pcts), SeqMax(Tail(pcts)))

\* round(sum((pct / 100) ** 2), 4) in ten-thousandths: (p/1000)^2 * 10^4 = p^2 / 100
RoundedHhi(pcts) == RoundDiv(SumSquares(pcts), 100)

calculate_avs_concentration(active_avs) ==
    IF active_avs = <<>>
    THEN [largest_avs_pct |-> 0, hhi |-> 0, has_split |-> FALSE, avs_split |-> <<>>]
    ELSE [largest_avs_pct |-> SeqMax(active_avs),
          hhi |-> RoundedHhi(active_avs),
          has_split |-> TRUE,
          avs_split |-> active_avs]

\* get_restaking_distribution: fixed totals 5,000,000 and 3,100,000 ETH
get_restaking_distribution ==
    LET total_staked_eth == 50
        restaked_eth     == 31
        restaked_pct100  == (restaked_eth * 10000) \div total_staked_eth
        base_pct100      == ((total_staked_eth - restaked_eth) * 10000) \div total_staked_eth
        deviation100     == Abs(restaked_pct100 - 6500)
        balanced_score   == IF deviation100 < 500 THEN 100
                            ELSE IF deviation100 < 1000 THEN 90
                            ELSE IF deviation100 < 1500 THEN 80
                            ELSE IF deviation100 < 2000 THEN 70 ELSE 60
    IN  [base_stake_pct |-> base_pct100 \div 10, restaked_pct |-> restaked_pct100 \div 10,
         balanced_score |-> balanced_score]

\* calculate_slashing_risk_score; avs_audit_status is already lower case
calculate_slashing_risk_score(uptime, client_diversity_score, dvt_enabled, avs_audit_status) ==
    LET uptime_risk == IF uptime >= 9990 THEN 0
                       ELSE IF uptime >= 9950 THEN 10
                       ELSE IF uptime >= 9900 THEN 20 ELSE 40
        uptime_band == IF uptime >= 9950 THEN "Green"
                       ELSE IF uptime >= 9900 THEN "Amber" ELSE "Red"
        \* diversity_risk = (100 - score) * 0.2, added with weight 0.2
        diversity_risk1000 == (100 - client_diversity_score) * 40
        diversity_band == IF client_diversity_score >= 75 THEN "Green"
                          ELSE IF client_diversity_score >= 60 THEN "Amber" ELSE "Red"
        dvt_risk == IF dvt_enabled THEN 0 ELSE 30
        audit_risk == CASE avs_audit_status = "audited" -> 0
                        [] avs_audit_status = "in_progress" -> 15
                        [] avs_audit_status = "mixed" -> 10
                        [] avs_audit_status = "none" -> 30
                        [] OTHER -> 15
        risk_score1000 == uptime_risk * 400 + diversity_risk1000
                          + dvt_risk * 200 + audit_risk * 200
    IN  [proxy_score |-> TruncDiv(risk_score1000, 1000),
         operator_uptime_band |-> uptime_band,
         client_diversity_band |-> diversity_band,
         dvt_presence |-> dvt_enabled,
         avs_audit_status |-> avs_audit_status]

(***************************************************************************)
(* uniswap_client.py: UniswapClient                                        *)
(* TVL and depth are in units of $100,000; the trade size is $10,000.      *)
(***************************************************************************)
\* int(price_impact + fee_tier / 100), price_impact = trade / tvl * 10000 = 1000 / tvl
SlippageBps(tvl, fee_tier) ==
    IF tvl > 0 THEN TruncDiv(100000 + fee_tier * tvl, 100 * tvl) ELSE 9999

\* the pool_details entry of one pool [tvl, fee_tier]
PoolDetail(pool) ==
    [tvl_usd |-> pool.tvl, slippage_bps |-> SlippageBps(pool.tvl, pool.fee_tier)]

RECURSIVE MinSlippagePool(_)
\* min(pool_details, key=slippage_bps): the first pool of least slippage
MinSlippagePool(details) ==
    IF Len(details) = 1 THEN Head(details)
    ELSE LET rest == MinSlippagePool(Tail(details))
         IN  IF Head(details).slippage_bps <= rest.slippage_bps THEN Head(details) ELSE rest

RECURSIVE PoolDetails(_)
PoolDetails(pools) ==
    IF pools = <<>> THEN <<>> ELSE <<PoolDetail(Head(pools))>> \o PoolDetails(Tail(pools))

RECURSIVE SumTvl(_)
SumTvl(pools) == IF pools = <<>> THEN 0 ELSE Head(pools).tvl + SumTvl(Tail(pools))

\* calculate_liquidity_metrics for one chain whose subgraph returned `pools`
calculate_liquidity_metrics(chain, pools) ==
    IF pools = <<>>
    THEN [chain |-> chain, pools_found |-> 0, total_tvl_usd |-> 0,
          best_pool |-> [tvl_usd |-> 0, slippage_bps |-> 0]]
    ELSE [chain |-> chain, pools_found |-> Len(pools), total_tvl_usd |-> SumTvl(pools),
          best_pool |-> MinSlippagePool(PoolDetails(pools))]

Chains == <<"ethereum", "arbitrum", "base">>

RECURSIVE MultiChainFrom(_, _)
\* get_multi_chain_liquidity: the chains with pools_found > 0, in order
MultiChainFrom(i, subgraph) ==
    IF i > Len(Chains) THEN <<>>
    ELSE LET metrics == calculate_liquidity_metrics(Chains[i], subgraph[i])
         IN  (IF metrics.pools_found > 0 THEN <<metrics>> ELSE <<>>)
             \o MultiChainFrom(i + 1, subgraph)

get_multi_chain_liquidity(subgraph) == MultiChainFrom(1, subgraph)

get_liquidity_depth_score(total_tvl_usd) ==
    IF total_tvl_usd >= 500 THEN 100
    ELSE IF total_tvl_usd >= 200 THEN 90
    ELSE IF total_tvl_usd >= 100 THEN 80
    ELSE IF total_tvl_usd >= 50 THEN 70
    ELSE IF total_tvl_usd >= 20 THEN 60
    ELSE IF total_tvl_usd >= 10 THEN 50
    ELSE IF total_tvl_usd >= 5 THEN 40
    ELSE 30

(***************************************************************************)
(* enhanced_risk_analysis.py: the get_*_data methods of EnhancedRiskAnalyzer. *)
(* has_client is `self.<x>_client` being set (REAL_DATA_AVAILABLE); a call *)
(* outcome is [raises |-> TRUE] when the client call raises, and           *)
(* [raises |-> FALSE, ...payload] when it returns.                         *)
(***************************************************************************)
MockClientNote == "Prysm(45%), Lighthouse(30%), Teku(15%), Nimbus(10%)"

UptimeMockTile ==
    [uptime_7d_pct |-> 9930, missed_attestations_7d |-> 12, dvt_protected |-> TRUE,
     client_diversity_note |-> MockClientNote]

UptimeFallbackTile ==
    [uptime_7d_pct |-> 9930, missed_attestations_7d |-> 12, dvt_protected |-> TRUE,
     client_diversity_note |-> "Data unavailable - using fallback"]

\* the dict calculate_uptime_metrics hands to get_operator_uptime_data, if any
UptimeMetricsOf(has_client, outcome) ==
    IF ~has_client \/ outcome.raises THEN Raise
    ELSE calculate_uptime_metrics(outcome.performance_data)

\* get_operator_uptime_data without its try/except: the exception propagates
get_operator_uptime_data_no_except(has_client, outcome) ==
    IF ~has_client THEN UptimeMockTile
    ELSE LET metrics == UptimeMetricsOf(has_client, outcome)
         IN  IF IsRaise(metrics) \/ outcome.aux_raises THEN Raise
             ELSE [uptime_7d_pct |-> metrics.uptime_pct,
                   missed_attestations_7d |-> metrics.missed_attestations,
                   dvt_protected |-> check_dvt_protection.dvt_enabled,
                   client_diversity_note |-> MockClientNote]

get_operator_uptime_data(has_client, outcome) ==
    IF ~has_client THEN UptimeMockTile
    ELSE LET metrics == UptimeMetricsOf(has_client, outcome)
         IN  IF IsRaise(metrics) \/ outcome.aux_raises THEN UptimeFallbackTile
             ELSE [uptime_7d_pct |-> metrics.uptime_pct,
                   missed_attestations_7d |-> metrics.missed_attestations,
                   dvt_protected |-> check_dvt_protection.dvt_enabled,
                   client_diversity_note |-> MockClientNote]

AvsMockTile ==
    [largest_avs_pct |-> 460, hhi |-> 2900, avs_split |-> <<460, 310, 230>>]

AvsFallbackTile ==
    [largest_avs_pct |-> 460, hhi |-> 2900, avs_split |-> <<1000>>]

\* get_avs_concentration_data without its try/except: the exception propagates
get_avs_concentration_data_no_except(has_client, outcome) ==
    IF ~has_client THEN AvsMockTile
    ELSE IF outcome.raises THEN Raise
    ELSE LET concentration == calculate_avs_concentration(outcome.active_avs)
         IN  [largest_avs_pct |-> concentration.largest_avs_pct,
              hhi |-> concentration.hhi,
              avs_split |-> concentration.avs_split]

get_avs_concentration_data(has_client, outcome) ==
    IF ~has_client THEN AvsMockTile
    ELSE IF outcome.raises THEN AvsFallbackTile
    ELSE LET concentration == calculate_avs_concentration(outcome.active_avs)
         IN  [largest_avs_pct |-> concentration.largest_avs_pct,
              hhi |-> concentration.hhi,
              avs_split |-> concentration.avs_split]

\* chain_data.get("chain", "").capitalize()
Capitalize(chain) ==
    CASE chain = "ethereum" -> "Ethereum"
      [] chain = "arbitrum" -> "Arbitrum"
      [] chain = "base" -> "Base"
      [] OTHER -> chain

RECURSIVE ChainsList(_)
\* every chain_data has a non-empty best_pool dict, so every chain is listed
ChainsList(all_chain_data) ==
    IF all_chain_data = <<>> THEN <<>>
    ELSE <<[chain |-> Capitalize(Head(all_chain_data).chain),
            depth_usd |-> Head(all_chain_data).best_pool.tvl_usd,
            slippage_bps |-> Head(all_chain_data).best_pool.slippage_bps]>>
         \o ChainsList(Tail(all_chain_data))

RECURSIVE TotalDepth(_)
TotalDepth(chains) ==
    IF chains = <<>> THEN 0 ELSE Head(chains).depth_usd + TotalDepth(Tail(chains))

RECURSIVE TotalSlippage(_)
TotalSlippage(chains) ==
    IF chains = <<>> THEN 0 ELSE Head(chains).slippage_bps + TotalSlippage(Tail(chains))

RECURSIVE MinSlippageChain(_)
\* min(chains, key=slippage_bps): the first chain of least slippage
MinSlippageChain(chains) ==
    IF Len(chains) = 1 THEN Head(chains)
    ELSE LET rest == MinSlippageChain(Tail(chains))
         IN  IF Head(chains).slippage_bps <= rest.slippage_bps THEN Head(chains) ELSE rest

RecommendedChain(chains) ==
    IF chains = <<>> THEN "None" ELSE MinSlippageChain(chains).chain

LiquidityMockTile ==
    [health_index |-> 75,
     chains |-> <<[chain |-> "Ethereum", depth_usd |-> 55, slippage_bps |-> 25]>>,
     recommended_chain |-> "Ethereum"]

LiquidityFallbackTile ==
    [health_index |-> 75, chains |-> <<>>, recommended_chain |-> "None"]

get_liquidity_depth_data(has_client, outcome) ==
    IF ~has_client THEN LiquidityMockTile
    ELSE IF outcome.raises THEN LiquidityFallbackTile
    ELSE LET chains_list == ChainsList(get_multi_chain_liquidity(outcome.subgraph))
         IN  [health_index |-> get_liquidity_depth_score(TotalDepth(chains_list)),
              chains |-> chains_list,
              recommended_chain |-> RecommendedChain(chains_list)]

DistributionFallback ==
    [base_stake_pct |-> 380, restaked_pct |-> 620, balanced_score |-> 75]

get_distribution_data(has_client, outcome) ==
    IF ~has_client \/ outcome.raises THEN DistributionFallback
    ELSE get_restaking_distribution

\* the uptime band and score computed without a client (lines 257-262)
LegacyUptimeBand(uptime) ==
    IF uptime > 9950 THEN "Green" ELSE IF uptime > 9900 THEN "Amber" ELSE "Red"

LegacySlashingScore(uptime) ==
    Min(100, 18 + (IF uptime < 9950 THEN 10 ELSE 0) + (IF uptime < 9900 THEN 15 ELSE 0))

SlashingFallbackTile ==
    [proxy_score |-> 18, operator_uptime_band |-> "Green", avs_audit_status |-> "Mixed",
     client_diversity_band |-> "Amber", dvt_presence |-> TRUE]

\* get_slashing_proxy_data taking its no-client branch whether or not there is a client
get_slashing_proxy_data_legacy(has_client, outcome, uptime, client_diversity_score, dvt_enabled) ==
    [proxy_score |-> LegacySlashingScore(uptime),
     operator_uptime_band |-> LegacyUptimeBand(uptime),
     avs_audit_status |-> "Mixed",
     client_diversity_band |-> "Amber",
     dvt_presence |-> dvt_enabled]

get_slashing_proxy_data(has_client, outcome, uptime, client_diversity_score, dvt_enabled) ==
    IF ~has_client
    THEN [proxy_score |-> LegacySlashingScore(uptime),
          operator_uptime_band |-> LegacyUptimeBand(uptime),
          avs_audit_status |-> "Mixed",
          client_diversity_band |-> "Amber",
          dvt_presence |-> dvt_enabled]
    ELSE IF outcome.raises THEN SlashingFallbackTile
    ELSE calculate_slashing_risk_score(uptime, client_diversity_score, dvt_enabled, "mixed")

(***************************************************************************)
(* main.py: the legacy /api/risk-analysis helpers.                         *)
(***************************************************************************)
\* get_liquidity_metrics: three fixed venues
LegacyLiquidityChains ==
    <<[chain |-> "Base", depth_usd |-> 82, slippage_bps |-> 18],
      [chain |-> "Arbitrum", depth_usd |-> 11, slippage_bps |-> 74],
      [chain |-> "Ethereum", depth_usd |-> 55, slippage_bps |-> 25]>>

\* int(depth_score * 0.6 + slippage_score * 0.4), clamped to 0..100
calculate_liquidity_health_index(liquidity_data_) ==
    IF liquidity_data_ = <<>> THEN 50
    ELSE LET n == Len(liquidity_data_)
             total_depth == TotalDepth(liquidity_data_)
             total_slippage == TotalSlippage(liquidity_data_)
             \* depth_score = min(100, total_depth / 10M * 100), times n
             depth_score_n == Min(100, total_depth) * n
             \* slippage_score = max(0, 100 - avg_slippage), times n
             slippage_score_n == Max(0, 100 * n - total_slippage)
         IN  Max(0, Min(100, TruncDiv(depth_score_n * 6 + slippage_score_n * 4, 10 * n)))

\* operator_stats as get_operator_metrics returns it:
\*   [kind |-> "mock"]  no RATED_API_KEY or no validator_index
\*   [kind |-> "empty"] the request failed: {}
\*   [kind |-> "json", uptime |-> u]  the provider's JSON with an "uptime" of u
LegacyOperatorUptime(operator_stats) ==
    IF operator_stats.kind = "json" THEN operator_stats.uptime ELSE 9930

LegacyAvsTile ==
    [largest_avs_pct |-> SeqMax(<<460, 310, 230>>), hhi |-> 2900,
     avs_split |-> <<460, 310, 230>>]

LegacyDistribution ==
    [base_stake_pct |-> 380, restaked_pct |-> 620, balanced_score |-> 66]

(***************************************************************************)
(* SpecRisk: one /api/risk-analysis-enhanced request (main.py lines        *)
(* 643-662), running generate_comprehensive_analysis step by step, or the  *)
(* legacy risk_analysis.                                                   *)
(***************************************************************************)
Unset == [unset |-> TRUE]

IsSet(v) == "unset" \notin DOMAIN v

\* the entries of "data" in the provider's performance payload
PerformanceEntries ==
    {JunkEntry} \cup [attestations : 0..MaxAttestations,
                      missed_attestations : 0..MaxAttestations]

RECURSIVE SeqsUpTo(_, _)
\* the sequences over S of length at most n
SeqsUpTo(S, n) ==
    IF n = 0 THEN {<<>>}
    ELSE LET shorter == SeqsUpTo(S, n - 1)
         IN  shorter \cup {Append(q, x) : q \in {t \in shorter : Len(t) = n - 1}, x \in S}

PerformancePayloads ==
    {[kind |-> "empty"], [kind |-> "no_data"], [kind |-> "bad_data"]}
    \cup {[kind |-> "data", data |-> d] : d \in SeqsUpTo(PerformanceEntries, MaxValidators)}

UptimeCallOutcomes ==
    {[raises |-> TRUE, aux_raises |-> FALSE, performance_data |-> [kind |-> "empty"]]}
    \cup {[raises |-> FALSE, aux_raises |-> a, performance_data |-> p] :
            a \in BOOLEAN, p \in PerformancePayloads}

\* allocation_pct lists a registry can hand to calculate_avs_concentration
ActiveAvsInputs == {MockActiveAvs, <<>>, <<1000>>, <<500, 500>>, <<334, 333, 333>>}

AvsCallOutcomes ==
    {[raises |-> TRUE]} \cup {[raises |-> FALSE, active_avs |-> a] : a \in ActiveAvsInputs}

\* the pools the subgraph can return for one chain
PoolLists ==
    {<<>>,
     <<[tvl |-> 55, fee_tier |-> 500]>>,
     <<[tvl |-> 0, fee_tier |-> 3000]>>,
     <<[tvl |-> 8, fee_tier |-> 3000], [tvl |-> 600, fee_tier |-> 100]>>}

LiquidityCallOutcomes ==
    {[raises |-> TRUE]}
    \cup {[raises |-> FALSE, subgraph |-> <<e, a, b>>] :
            e \in PoolLists, a \in PoolLists, b \in PoolLists}

PlainCallOutcomes == {[raises |-> TRUE], [raises |-> FALSE]}

\* the address query parameter: its default, or one the caller gives
DefaultAddress == "0xabc...1234"

Addresses == {DefaultAddress, "0xdef...5678"}

LegacyOperatorStats ==
    {[kind |-> "mock"], [kind |-> "empty"]}
    \cup {[kind |-> "json", uptime |-> u] : u \in {9990, 9950, 9930, 9900, 9800}}

RiskInit ==
    /\ risk_pc = "request"
    /\ address \in Addresses
    /\ enhanced_available \in BOOLEAN
    /\ real_data_available \in BOOLEAN
    /\ enhanced_error = FALSE
    /\ failed_calls = {}
    /\ uptime_metrics = Unset
    /\ uptime_data = Unset
    /\ avs_data = Unset
    /\ liquidity_data = Unset
    /\ distribution_data = Unset
    /\ slashing_data = Unset
    /\ response = Unset

RiskIdle ==
    /\ risk_pc = "request"
    /\ address = DefaultAddress
    /\ enhanced_available = TRUE
    /\ real_data_available = TRUE
    /\ enhanced_error = FALSE
    /\ failed_calls = {}
    /\ uptime_metrics = Unset
    /\ uptime_data = Unset
    /\ avs_data = Unset
    /\ liquidity_data = Unset
    /\ distribution_data = Unset
    /\ slashing_data = Unset
    /\ response = Unset

\* risk_analysis_enhanced, lines 653-662: choose the enhanced or the legacy analysis
RiskAnalysisEnhanced ==
    /\ risk_pc = "request"
    /\ risk_pc' = IF enhanced_available THEN "get_uptime" ELSE "legacy"
    /\ UNCHANGED <<address, enhanced_available, real_data_available, enhanced_error, failed_calls,
                   uptime_metrics, uptime_data, avs_data, liquidity_data,
                   distribution_data, slashing_data, response>>
    /\ UNCHANGED <<scoreVars, portVars, cacheVars, divVars, metVars, cfgVars,
                   slVars, lqVars, epVars, dfVars>>

\* a handler that leaves the enhanced analysis for the legacy one in any case
AlwaysLegacy(tile, next) == "legacy"

\* where the request goes after a get_*_data call returned `tile`
AfterCall(tile, next) == IF IsRaise(tile) THEN "legacy" ELSE next

Failed(name, outcome) ==
    IF real_data_available /\ outcome.raises THEN failed_calls \cup {name} ELSE failed_calls

\* line 382
GetOperatorUptime ==
    /\ risk_pc = "get_uptime"
    /\ \E outcome \in UptimeCallOutcomes :
         LET tile == get_operator_uptime_data(real_data_available, outcome)
             metrics == UptimeMetricsOf(real_data_available, outcome)
         IN  /\ uptime_data' = tile
             /\ uptime_metrics' = IF IsRaise(metrics) THEN Unset ELSE metrics
             /\ failed_calls' =
                  IF real_data_available /\ (outcome.raises \/ outcome.aux_raises
                                             \/ outcome.performance_data.kind = "bad_data")
                  THEN failed_calls \cup {"uptime"} ELSE failed_calls
             /\ enhanced_error' = IsRaise(tile)
             /\ risk_pc' = AfterCall(tile, "get_avs")
    /\ UNCHANGED <<address, enhanced_available, real_data_available, avs_data, liquidity_data,
                   distribution_data, slashing_data, response>>
    /\ UNCHANGED <<scoreVars, portVars, cacheVars, divVars, metVars, cfgVars,
                   slVars, lqVars, epVars, dfVars>>

\* line 383
GetAvsConcentration ==
    /\ risk_pc = "get_avs"
    /\ \E outcome \in AvsCallOutcomes :
         LET tile == get_avs_concentration_data(real_data_available, outcome)
         IN  /\ avs_data' = tile
             /\ failed_calls' = Failed("avs", outcome)
             /\ enhanced_error' = IsRaise(tile)
             /\ risk_pc' = AfterCall(tile, "get_liquidity")
    /\ UNCHANGED <<address, enhanced_available, real_data_available, uptime_metrics, uptime_data,
                   liquidity_data, distribution_data, slashing_data, response>>
    /\ UNCHANGED <<scoreVars, portVars, cacheVars, divVars, metVars, cfgVars,
                   slVars, lqVars, epVars, dfVars>>

\* line 384
GetLiquidityDepth ==
    /\ risk_pc = "get_liquidity"
    /\ \E outcome \in LiquidityCallOutcomes :
         LET tile == get_liquidity_depth_data(real_data_available, outcome)
         IN  /\ liquidity_data' = tile
             /\ failed_calls' = Failed("liquidity", outcome)
             /\ enhanced_error' = IsRaise(tile)
             /\ risk_pc' = AfterCall(tile, "get_distribution")
    /\ UNCHANGED <<address, enhanced_available, real_data_available, uptime_metrics, uptime_data,
                   avs_data, distribution_data, slashing_data, response>>
    /\ UNCHANGED <<scoreVars, portVars, cacheVars, divVars, metVars, cfgVars,
                   slVars, lqVars, epVars, dfVars>>

\* line 385
GetDistribution ==
    /\ risk_pc = "get_distribution"
    /\ \E outcome \in PlainCallOutcomes :
         LET tile == get_distribution_data(real_data_available, outcome)
         IN  /\ distribution_data' = tile
             /\ failed_calls' = Failed("distribution", outcome)
             /\ enhanced_error' = IsRaise(tile)
             /\ risk_pc' = AfterCall(tile, "get_slashing")
    /\ UNCHANGED <<address, enhanced_available, real_data_available, uptime_metrics, uptime_data,
                   avs_data, liquidity_data, slashing_data, response>>
    /\ UNCHANGED <<scoreVars, portVars, cacheVars, divVars, metVars, cfgVars,
                   slVars, lqVars, epVars, dfVars>>

\* lines 388-392
GetSlashingProxy ==
    /\ risk_pc = "get_slashing"
    /\ \E outcome \in PlainCallOutcomes :
         LET tile == get_slashing_proxy_data(real_data_available, outcome,
                                             uptime_data.uptime_7d_pct, 75,
                                             uptime_data.dvt_protected)
         IN  /\ slashing_data' = tile
             /\ failed_calls' = Failed("slashing", outcome)
             /\ enhanced_error' = IsRaise(tile)
             /\ risk_pc' = AfterCall(tile, "score")
    /\ UNCHANGED <<address, enhanced_available, real_data_available, uptime_metrics, uptime_data,
                   avs_data, liquidity_data, distribution_data, response>>
    /\ UNCHANGED <<scoreVars, portVars, cacheVars, divVars, metVars, cfgVars,
                   slVars, lqVars, epVars, dfVars>>

\* lines 395-421: score the tiles and build the response
BuildResponse ==
    /\ risk_pc = "score"
    /\ response' =
         [address |-> address,
          methodology_version |-> "efi-risk-v2.0-real-data",
          risk_score |-> calculate_overall_risk_score(uptime_data.uptime_7d_pct,
                                                      avs_data.largest_avs_pct,
                                                      slashing_data.proxy_score,
                                                      liquidity_data.health_index),
          tiles |-> [operator_uptime |-> uptime_data,
                     avs_concentration |-> avs_data,
                     slashing_proxy |-> slashing_data,
                     liquidity_depth |-> liquidity_data],
          breakdown |-> [distribution |-> distribution_data]]
    /\ risk_pc' = "done"
    /\ UNCHANGED <<address, enhanced_available, real_data_available, enhanced_error, failed_calls,
                   uptime_metrics, uptime_data, avs_data, liquidity_data,
                   distribution_data, slashing_data>>
    /\ UNCHANGED <<scoreVars, portVars, cacheVars, divVars, metVars, cfgVars,
                   slVars, lqVars, epVars, dfVars>>

\* main.risk_analysis, lines 527-640
LegacyRiskAnalysis ==
    /\ risk_pc = "legacy"
    /\ \E operator_stats \in LegacyOperatorStats :
         LET operator_uptime_pct == LegacyOperatorUptime(operator_stats)
             uptime_tile == [uptime_7d_pct |-> operator_uptime_pct,
                             missed_attestations_7d |-> 12,
                             dvt_protected |-> TRUE,
                             client_diversity_note |-> "Prysm(70%), Lighthouse(30%)"]
             slashing_tile == [proxy_score |-> LegacySlashingScore(operator_uptime_pct),
                               operator_uptime_band |-> LegacyUptimeBand(operator_uptime_pct),
                               avs_audit_status |-> "Mixed",
                               client_diversity_band |-> "Amber",
                               dvt_presence |-> TRUE]
             health_index == calculate_liquidity_health_index(LegacyLiquidityChains)
             liquidity_tile == [health_index |-> health_index,
                                chains |-> LegacyLiquidityChains,
                                recommended_chain |-> RecommendedChain(LegacyLiquidityChains)]
         IN  /\ uptime_data' = uptime_tile
             /\ avs_data' = LegacyAvsTile
             /\ slashing_data' = slashing_tile
             /\ liquidity_data' = liquidity_tile
             /\ distribution_data' = LegacyDistribution
             /\ response' =
                  [address |-> address,
                   methodology_version |-> "efi-risk-v1.2",
                   risk_score |-> calculate_risk_score(operator_uptime_pct,
                                                       LegacyAvsTile.largest_avs_pct,
                                                       slashing_tile.proxy_score,
                                                       health_index),
                   tiles |-> [operator_uptime |-> uptime_tile,
                              avs_concentration |-> LegacyAvsTile,
                              slashing_proxy |-> slashing_tile,
                              liquidity_depth |-> liquidity_tile],
                   breakdown |-> [distribution |-> LegacyDistribution]]
    /\ risk_pc' = "done"
    /\ UNCHANGED <<address, enhanced_available, real_data_available, enhanced_error, failed_calls,
                   uptime_metrics>>
    /\ UNCHANGED <<scoreVars, portVars, cacheVars, divVars, metVars, cfgVars,
                   slVars, lqVars, epVars, dfVars>>

RiskNext ==
    \/ RiskAnalysisEnhanced
    \/ GetOperatorUptime
    \/ GetAvsConcentration
    \/ GetLiquidityDepth
    \/ GetDistribution
    \/ GetSlashingProxy
    \/ BuildResponse
    \/ LegacyRiskAnalysis

(***************************************************************************)
(* Python values that may be None: a number is Num(x), None is PyNone.     *)
(***************************************************************************)
PyNone == [is_none |-> TRUE, value |-> 0]

Num(x) == [is_none |-> FALSE, value |-> x]

IsNone(v) == v.is_none

(***************************************************************************)
(* defillama_client.py: DefiLlamaClient                                    *)
(*                                                                         *)
(* The coins response, per product:                                        *)
(*   [kind |-> "absent"]               no entry for the contract address   *)
(*   [kind |-> "null"]                 an entry without a usable "price"   *)
(*   [kind |-> "price", price |-> p]   an entry with price p (USD)         *)
(* The yields response, per product, likewise with "apy" (hundredths of a  *)
(* percent) in place of "price".                                           *)
(***************************************************************************)
AbsentProduct == [present |-> FALSE, price |-> PyNone]

\* result[product] = {"price": coin_data.get("price"), ...} for a listed product
PriceEntry(coin) ==
    IF coin.kind = "absent" THEN AbsentProduct
    ELSE [present |-> TRUE,
          price |-> IF coin.kind = "price" THEN Num(coin.price) ELSE PyNone]

\* get_current_prices: {} after an HTTP error, else one entry per listed product
get_current_prices(outcome) ==
    IF outcome.kind = "http_error"
    THEN [eETH |-> AbsentProduct, weETH |-> AbsentProduct]
    ELSE [eETH |-> PriceEntry(outcome.eETH), weETH |-> PriceEntry(outcome.weETH)]

AbsentApy == [present |-> FALSE, apy_total |-> PyNone, tvl_usd |-> 0]

\* result[product] = {"apy_total": pool.get("apy", 0), "tvl_usd": ..., ...}
ApyEntry(pool) ==
    IF pool.kind = "absent" THEN AbsentApy
    ELSE [present |-> TRUE,
          apy_total |-> IF pool.kind = "apy" THEN Num(pool.apy) ELSE PyNone,
          tvl_usd |-> 9000]

\* get_all_apys over get_yields_data, which is [] after an HTTP error
get_all_apys(outcome) ==
    IF outcome.kind = "http_error"
    THEN [eETH |-> AbsentApy, weETH |-> AbsentApy]
    ELSE [eETH |-> ApyEntry(outcome.eETH), weETH |-> ApyEntry(outcome.weETH)]

(***************************************************************************)
(* enhanced_portfolio_analyzer.py: the _get_* methods.                     *)
(* Prices are hundreds of USD (3500 USD is 35), APYs hundredths of a       *)
(* percent, protocol TVL millions of USD, pool TVL units of 100,000 USD.    *)
(***************************************************************************)
PricesFallback == [ETH |-> Num(35), eETH |-> Num(35), weETH |-> Num(36)]

\* prices.get(product, {}).get("price", default)
PriceOr(entry, default) == IF entry.present THEN entry.price ELSE Num(default)

\* _get_current_prices
get_portfolio_prices(has_client, outcome) ==
    IF ~has_client \/ outcome.kind = "raise" THEN PricesFallback
    ELSE LET feed == get_current_prices(outcome)
         IN  [ETH |-> Num(35),
              eETH |-> PriceOr(feed.eETH, 35),
              weETH |-> PriceOr(feed.weETH, 36)]

ApyFallback ==
    [eETH |-> Num(320), weETH |-> Num(320), LiquidUSD |-> Num(1000),
     has_total_tvl |-> FALSE, total_tvl |-> 0]

\* apy_data.get(product, {}).get("apy_total", 3.2)
ApyOr(entry, default) == IF entry.present THEN entry.apy_total ELSE Num(default)

\* _get_apy_data
get_apy_data(has_client, outcome) ==
    IF ~has_client \/ outcome.kind = "raise" THEN ApyFallback
    ELSE LET feed == get_all_apys(outcome)
         IN  [eETH |-> ApyOr(feed.eETH, 320),
              weETH |-> ApyOr(feed.weETH, 320),
              LiquidUSD |-> Num(1000),
              has_total_tvl |-> TRUE,
              total_tvl |-> IF feed.eETH.present THEN feed.eETH.tvl_usd ELSE 8500]

RiskMetricsFallback ==
    [operator_risk |-> 30, uptime_pct |-> 9950, has_dvt |-> FALSE]

\* the operator risk band of lines 267-279
OperatorRisk(uptime_pct, dvt_enabled) ==
    LET operator_risk == IF uptime_pct >= 9990 THEN 15
                         ELSE IF uptime_pct >= 9950 THEN 25
                         ELSE IF uptime_pct >= 9900 THEN 40 ELSE 60
    IN  IF dvt_enabled THEN TruncDiv(operator_risk * 7, 10) ELSE operator_risk

\* _get_risk_metrics
get_risk_metrics(has_client, outcome) ==
    IF ~has_client \/ outcome.raises THEN RiskMetricsFallback
    ELSE LET uptime == calculate_uptime_metrics(outcome.performance_data)
         IN  IF IsRaise(uptime) THEN RiskMetricsFallback
             ELSE [operator_risk |-> OperatorRisk(uptime.uptime_pct,
                                                  check_dvt_protection.dvt_enabled),
                   uptime_pct |-> uptime.uptime_pct,
                   has_dvt |-> TRUE]

LiquidityInfoFallback ==
    [weETH_liquidity |-> 95, eETH_liquidity |-> 85, has_total_tvl |-> FALSE,
     total_tvl |-> 0, venues |-> <<"Uniswap", "Curve">>]

RECURSIVE SumChainTvl(_)
SumChainTvl(liquidity) ==
    IF liquidity = <<>> THEN 0
    ELSE Head(liquidity).total_tvl_usd + SumChainTvl(Tail(liquidity))

RECURSIVE ChainNames(_)
ChainNames(liquidity) ==
    IF liquidity = <<>> THEN <<>>
    ELSE <<Head(liquidity).chain>> \o ChainNames(Tail(liquidity))

\* _get_liquidity_data
get_liquidity_data(has_client, outcome) ==
    IF ~has_client \/ outcome.raises THEN LiquidityInfoFallback
    ELSE LET liquidity == get_multi_chain_liquidity(outcome.subgraph)
             total_tvl == SumChainTvl(liquidity)
             score == IF total_tvl >= 500 THEN 100
                      ELSE IF total_tvl >= 200 THEN 90
                      ELSE IF total_tvl >= 100 THEN 80 ELSE 70
         IN  [weETH_liquidity |-> score,
              eETH_liquidity |-> Max(score - 10, 70),
              has_total_tvl |-> TRUE,
              total_tvl |-> total_tvl,
              venues |-> ChainNames(liquidity)]

RestakingFallback ==
    [restaked_pct |-> 620, largest_avs_pct |-> 462, has_balance_score |-> FALSE,
     balance_score |-> 0]

\* _get_restaking_data
get_restaking_data(has_client, outcome) ==
    IF ~has_client \/ outcome.raises THEN RestakingFallback
    ELSE LET distribution == get_restaking_distribution
             concentration == calculate_avs_concentration(MockActiveAvs)
         IN  [restaked_pct |-> distribution.restaked_pct,
              largest_avs_pct |-> concentration.largest_avs_pct,
              has_balance_score |-> TRUE,
              balance_score |-> distribution.balanced_score]

(***************************************************************************)
(* enhanced_portfolio_analyzer.py: analyze_portfolio, lines 114-223.       *)
(* Balances are whole tokens (hundreds of USD for Liquid USD), so          *)
(* value_usd is an integer number of hundreds of USD; blended_apy is kept  *)
(* exact as a fraction num/den of hundredths of a percent.                 *)
(***************************************************************************)
Rat(num, den) == [num |-> num, den |-> den]

\* the four PortfolioAsset constructions, in source order
AssetCandidates(h, p, apy, risk, liq) ==
    << [symbol |-> "ETH", balance |-> h.eth_balance, price |-> p.ETH,
        apy |-> Num(0), risk_score |-> 25, liquidity_score |-> 100],
       [symbol |-> "eETH", balance |-> h.eeth_balance, price |-> p.eETH,
        apy |-> apy.eETH, risk_score |-> risk.operator_risk,
        liquidity_score |-> liq.eETH_liquidity],
       [symbol |-> "weETH", balance |-> h.weeth_balance, price |-> p.weETH,
        apy |-> apy.weETH, risk_score |-> risk.operator_risk,
        liquidity_score |-> liq.weETH_liquidity],
       [symbol |-> "LiquidUSD", balance |-> h.liquid_usd_balance, price |-> Num(1),
        apy |-> apy.LiquidUSD, risk_score |-> 40, liquidity_score |-> 100] >>

PortfolioAsset(c) ==
    [symbol |-> c.symbol, balance |-> c.balance, current_price |-> c.price.value,
     value_usd |-> c.balance * c.price.value, apy |-> c.apy.value,
     risk_score |-> c.risk_score, liquidity_score |-> c.liquidity_score]

RECURSIVE BuildAssets(_)
\* assets.append(...) under `if balance > 0`; balance * None is a TypeError and
\* apy=None fails the PortfolioAsset validation
BuildAssets(candidates) ==
    IF candidates = <<>> THEN [exception |-> "none", assets |-> <<>>]
    ELSE LET c == Head(candidates)
             rest == BuildAssets(Tail(candidates))
         IN  IF ~(c.balance > 0) THEN rest
             ELSE IF IsNone(c.price) THEN [exception |-> "TypeError", assets |-> <<>>]
             ELSE IF IsNone(c.apy) THEN [exception |-> "ValidationError", assets |-> <<>>]
             ELSE IF rest.exception # "none" THEN rest
             ELSE [exception |-> "none", assets |-> <<PortfolioAsset(c)>> \o rest.assets]

RECURSIVE SumValue(_)
SumValue(assets) ==
    IF assets = <<>> THEN 0 ELSE Head(assets).value_usd + SumValue(Tail(assets))

RECURSIVE SumWeighted(_, _)
\* sum(asset.value_usd * asset.<field> for asset in assets)
SumWeighted(assets, field) ==
    IF assets = <<>> THEN 0
    ELSE Head(assets).value_usd * Head(assets)[field] + SumWeighted(Tail(assets), field)

\* allocations = [asset.value_usd / total_value for asset in assets]
Allocations(assets, total_value) ==
    [i \in 1..Len(assets) |-> FRatio(assets[i].value_usd, total_value)]

\* hhi = sum(alloc ** 2 for alloc in allocations), alloc ** 2 being the
\* correctly rounded square
Hhi(assets, total_value) ==
    LET allocations == Allocations(assets, total_value)
    IN  FSum([i \in 1..Len(assets) |-> FMul(allocations[i], allocations[i])])

\* int(hhi * 100): the concentration in place of its complement
ConcentrationOf(assets, total_value) ==
    FInt(FMul(Hhi(assets, total_value), FloatOf(100)))

\* int((1 - hhi) * 100), line 190, in floats: the integer values and their
\* total are exact floats, the allocations and what follows are rounded
DiversificationOf(assets, total_value) ==
    FInt(FMul(FSub(FloatOf(1), Hhi(assets, total_value)), FloatOf(100)))

(***************************************************************************)
(* The inputs the specifications draw, and the diversification score       *)
(* computed once for each list of asset values they can build.             *)
(***************************************************************************)
BalanceInputs == -1..MaxBalance

\* Liquid USD is held in amounts of 3500 USD, the worth of one token
LiquidUsdInputs == {35 * b : b \in BalanceInputs}

HoldingsInputs ==
    [eth_balance : BalanceInputs, eeth_balance : BalanceInputs,
     weeth_balance : BalanceInputs, liquid_usd_balance : LiquidUsdInputs]

\* what the coins endpoint can hold for one product
CoinEntries(price) ==
    {[kind |-> "null"], [kind |-> "price", price |-> 0], [kind |-> "price", price |-> price]}

PriceCallOutcomes ==
    {[kind |-> "raise"], [kind |-> "http_error"]}
    \cup {[kind |-> "coins", eETH |-> e, weETH |-> w] :
            e \in CoinEntries(34), w \in CoinEntries(37)}

AssetValues == 1..MaxAssetValue

ValueLists(n) == [1..n -> AssetValues]

RECURSIVE AssetsOf(_)
\* the assets list, of which the branch reads value_usd only
AssetsOf(values) ==
    IF values = <<>> THEN <<>>
    ELSE <<[value_usd |-> Head(values)]>> \o AssetsOf(Tail(values))

ValuesOf(assets) == [i \in 1..Len(assets) |-> assets[i].value_usd]

\* the value_usd lists analyze_portfolio can build from the holdings and prices
PortfolioValueLists ==
    {ValuesOf(BuildAssets(AssetCandidates(h, get_portfolio_prices(TRUE, o), ApyFallback,
                                          RiskMetricsFallback,
                                          LiquidityInfoFallback)).assets) :
        h \in HoldingsInputs, o \in PriceCallOutcomes}

\* the lists that reach line 188 without dividing by zero
ScoredValueLists ==
    {values \in PortfolioValueLists \cup ValueLists(2) \cup ValueLists(3) :
        Len(values) >= 2 /\ SumValue(AssetsOf(values)) > 0}

\* DiversificationOf as a stored function (@@ makes TLC build it once)
DiversificationScores ==
    [values \in ScoredValueLists |->
        DiversificationOf(AssetsOf(values), SumValue(AssetsOf(values)))] @@ <<>>

\* lines 166-200; with two or more assets held, asset.value_usd / total_value
\* is evaluated whatever total_value is, and divides by zero when it is 0
PortfolioMetrics(h, assets, restaking) ==
    LET total_value == SumValue(assets)
        num_assets == Len(assets)
    IN  IF num_assets >= 2 /\ total_value = 0
        THEN [exception |-> "ZeroDivisionError"]
        ELSE [exception |-> "none",
              total_value_usd |-> total_value,
              total_staked_eth |-> h.eeth_balance + h.weeth_balance,
              total_restaked_pct |-> restaking.restaked_pct,
              blended_apy |-> IF total_value > 0
                              THEN Rat(SumWeighted(assets, "apy"), total_value)
                              ELSE Rat(0, 1),
              overall_risk_score |->
                  IF total_value > 0
                  THEN TruncDiv(SumWeighted(assets, "risk_score"), total_value) ELSE 0,
              liquidity_health |->
                  IF total_value > 0
                  THEN TruncDiv(SumWeighted(assets, "liquidity_score"), total_value) ELSE 0,
              diversification_score |->
                  IF num_assets = 0 THEN 0
                  ELSE IF num_assets = 1 THEN 20
                  ELSE DiversificationScores[ValuesOf(assets)]]

\* the strategies with the Conservative Hold test made inclusive
generate_recommendations_inclusive(metrics) ==
    (IF metrics.overall_risk_score <= 40
     THEN <<[name |-> "Conservative Hold", expected_apy |-> metrics.blended_apy,
             risk_level |-> "Low"]>>
     ELSE <<>>)
    \o (IF metrics.liquidity_health > 80
        THEN <<[name |-> "Yield Optimization",
                expected_apy |-> Rat(metrics.blended_apy.num * 3,
                                     metrics.blended_apy.den * 2),
                risk_level |-> "Moderate"]>>
        ELSE <<>>)
    \o (IF metrics.diversification_score < 60
        THEN <<[name |-> "Diversification",
                expected_apy |-> Rat(metrics.blended_apy.num * 9,
                                     metrics.blended_apy.den * 10),
                risk_level |-> "Low-Moderate"]>>
        ELSE <<>>)

\* _generate_recommendations: name, expected_apy and risk_level of each strategy
generate_recommendations(metrics) ==
    (IF metrics.overall_risk_score < 40
     THEN <<[name |-> "Conservative Hold", expected_apy |-> metrics.blended_apy,
             risk_level |-> "Low"]>>
     ELSE <<>>)
    \o (IF metrics.liquidity_health > 80
        THEN <<[name |-> "Yield Optimization",
                expected_apy |-> Rat(metrics.blended_apy.num * 3,
                                     metrics.blended_apy.den * 2),
                risk_level |-> "Moderate"]>>
        ELSE <<>>)
    \o (IF metrics.diversification_score < 60
        THEN <<[name |-> "Diversification",
                expected_apy |-> Rat(metrics.blended_apy.num * 9,
                                     metrics.blended_apy.den * 10),
                risk_level |-> "Low-Moderate"]>>
        ELSE <<>>)

MarketContext(p, apy, risk, liq, restaking) ==
    [eth_price |-> p.ETH.value,
     validator_uptime |-> risk.uptime_pct,
     total_protocol_tvl |-> IF apy.has_total_tvl THEN apy.total_tvl ELSE 8500,
     liquidity_venues |-> liq.venues,
     avs_concentration |-> restaking.largest_avs_pct]

\* lines 202-223: the recommendations, the market context and the result
PortfolioAnalysisResult(clock, real_data, assets, metrics, market_context) ==
    IF metrics.exception # "none" THEN [exception |-> metrics.exception]
    ELSE [exception |-> "none",
          timestamp |-> clock,
          assets |-> assets,
          metrics |-> [f \in DOMAIN metrics \ {"exception"} |-> metrics[f]],
          recommendations |-> generate_recommendations(metrics),
          market_context |-> market_context,
          data_quality |-> IF real_data THEN "real" ELSE "mock"]

\* lines 165-223, once the assets are built or building them has raised
AnalysisOf(clock, real_data, h, built, restaking, market_context) ==
    IF built.exception # "none" THEN [exception |-> built.exception]
    ELSE PortfolioAnalysisResult(clock, real_data, built.assets,
                                 PortfolioMetrics(h, built.assets, restaking),
                                 market_context)

\* analyze_portfolio after its five fetches: the result, or the exception raised
analyze_portfolio(clock, real_data, h, p, apy, risk, liq, restaking) ==
    AnalysisOf(clock, real_data, h, BuildAssets(AssetCandidates(h, p, apy, risk, liq)),
               restaking, MarketContext(p, apy, risk, liq, restaking))

\* main.py portfolio_analysis_enhanced: result.dict(), or the error dict
PortfolioError(kind) == [error |-> "Portfolio analysis failed", message |-> kind]

\* what the endpoint returns for a result of analyze_portfolio
PortfolioResponse(result) ==
    IF result.exception = "none" THEN result ELSE PortfolioError(result.exception)

\* analyze_portfolio on the values the five fetches have left in the request
Analyze(clock) ==
    analyze_portfolio(clock, analyzer_real_data, holdings, prices, apy_data,
                      risk_metrics, liquidity_info, restaking_data)

(***************************************************************************)
(* SpecPortfolio: one POST /api/portfolio-analysis-enhanced request.       *)
(* analyze_portfolio awaits its five sources one after the other and then  *)
(* builds the result; every source answers with one of its outcomes.       *)
(***************************************************************************)
\* what the yields endpoint can hold for the two products
ApyCallOutcomes ==
    {[kind |-> "raise"], [kind |-> "http_error"],
     [kind |-> "pools", eETH |-> [kind |-> "absent"], weETH |-> [kind |-> "absent"]],
     [kind |-> "pools", eETH |-> [kind |-> "apy", apy |-> 400],
                        weETH |-> [kind |-> "apy", apy |-> 450]],
     [kind |-> "pools", eETH |-> [kind |-> "null"],
                        weETH |-> [kind |-> "apy", apy |-> 450]]}

\* what get_validator_performance can hand to calculate_uptime_metrics
BeaconCallOutcomes ==
    {[raises |-> TRUE, performance_data |-> [kind |-> "empty"]]}
    \cup {[raises |-> FALSE, performance_data |-> p] :
            p \in {[kind |-> "data", data |-> <<[attestations |-> 1,
                                                 missed_attestations |-> 0]>>],
                   [kind |-> "data", data |-> <<[attestations |-> 2,
                                                 missed_attestations |-> 1]>>]}}

UniswapCallOutcomes ==
    {[raises |-> TRUE],
     [raises |-> FALSE, subgraph |-> <<<<[tvl |-> 55, fee_tier |-> 500]>>, <<>>, <<>>>>],
     [raises |-> FALSE,
      subgraph |-> <<<<[tvl |-> 8, fee_tier |-> 3000], [tvl |-> 600, fee_tier |-> 100]>>,
                     <<>>, <<[tvl |-> 55, fee_tier |-> 500]>>>>]}

PortfolioInit ==
    /\ port_pc = "prices"
    /\ analyzer_real_data \in BOOLEAN
    /\ holdings \in HoldingsInputs
    /\ prices = Unset
    /\ apy_data = Unset
    /\ risk_metrics = Unset
    /\ liquidity_info = Unset
    /\ restaking_data = Unset
    /\ fallback_sources = {}
    /\ analysis = Unset
    /\ port_exception = "none"
    /\ port_clock = 0
    /\ analysis_again = Unset

PortfolioIdle ==
    /\ port_pc = "prices"
    /\ analyzer_real_data = TRUE
    /\ holdings = [eth_balance |-> 0, eeth_balance |-> 0, weeth_balance |-> 0,
                   liquid_usd_balance |-> 0]
    /\ prices = Unset
    /\ apy_data = Unset
    /\ risk_metrics = Unset
    /\ liquidity_info = Unset
    /\ restaking_data = Unset
    /\ fallback_sources = {}
    /\ analysis = Unset
    /\ port_exception = "none"
    /\ port_clock = 0
    /\ analysis_again = Unset

\* Step 1: prices = await self._get_current_prices()
GetCurrentPrices ==
    /\ port_pc = "prices"
    /\ \E outcome \in PriceCallOutcomes :
         /\ prices' = get_portfolio_prices(analyzer_real_data, outcome)
         /\ fallback_sources' =
              IF ~analyzer_real_data \/ outcome.kind \in {"raise", "http_error"}
              THEN fallback_sources \cup {"prices"} ELSE fallback_sources
    /\ port_pc' = "apy"
    /\ UNCHANGED <<analyzer_real_data, holdings, apy_data, risk_metrics, liquidity_info,
                   restaking_data, analysis, port_exception,
                   port_clock, analysis_again>>
    /\ UNCHANGED <<scoreVars, riskVars, cacheVars, divVars, metVars, cfgVars,
                   slVars, lqVars, epVars, dfVars>>

\* Step 2: apy_data = await self._get_apy_data()
GetApyData ==
    /\ port_pc = "apy"
    /\ \E outcome \in ApyCallOutcomes :
         /\ apy_data' = get_apy_data(analyzer_real_data, outcome)
         /\ fallback_sources' =
              IF ~analyzer_real_data \/ outcome.kind \in {"raise", "http_error"}
              THEN fallback_sources \cup {"apy"} ELSE fallback_sources
    /\ port_pc' = "risk"
    /\ UNCHANGED <<analyzer_real_data, holdings, prices, risk_metrics, liquidity_info,
                   restaking_data, analysis, port_exception,
                   port_clock, analysis_again>>
    /\ UNCHANGED <<scoreVars, riskVars, cacheVars, divVars, metVars, cfgVars,
                   slVars, lqVars, epVars, dfVars>>

\* Step 3: risk_metrics = await self._get_risk_metrics()
GetRiskMetrics ==
    /\ port_pc = "risk"
    /\ \E outcome \in BeaconCallOutcomes :
         /\ risk_metrics' = get_risk_metrics(analyzer_real_data, outcome)
         /\ fallback_sources' =
              IF \/ ~analyzer_real_data
                 \/ outcome.raises
                 \/ outcome.performance_data.kind # "data"
              THEN fallback_sources \cup {"risk"} ELSE fallback_sources
    /\ port_pc' = "liquidity"
    /\ UNCHANGED <<analyzer_real_data, holdings, prices, apy_data, liquidity_info,
                   restaking_data, analysis, port_exception,
                   port_clock, analysis_again>>
    /\ UNCHANGED <<scoreVars, riskVars, cacheVars, divVars, metVars, cfgVars,
                   slVars, lqVars, epVars, dfVars>>

\* Step 4: liquidity_data = await self._get_liquidity_data()
GetLiquidityData ==
    /\ port_pc = "liquidity"
    /\ \E outcome \in UniswapCallOutcomes :
         /\ liquidity_info' = get_liquidity_data(analyzer_real_data, outcome)
         /\ fallback_sources' =
              IF ~analyzer_real_data \/ outcome.raises
              THEN fallback_sources \cup {"liquidity"} ELSE fallback_sources
    /\ port_pc' = "restaking"
    /\ UNCHANGED <<analyzer_real_data, holdings, prices, apy_data, risk_metrics,
                   restaking_data, analysis, port_exception,
                   port_clock, analysis_again>>
    /\ UNCHANGED <<scoreVars, riskVars, cacheVars, divVars, metVars, cfgVars,
                   slVars, lqVars, epVars, dfVars>>

\* Step 5: restaking_data = await self._get_restaking_data()
GetRestakingData ==
    /\ port_pc = "restaking"
    /\ \E outcome \in PlainCallOutcomes :
         /\ restaking_data' = get_restaking_data(analyzer_real_data, outcome)
         /\ fallback_sources' =
              IF ~analyzer_real_data \/ outcome.raises
              THEN fallback_sources \cup {"restaking"} ELSE fallback_sources
    /\ port_pc' = "build"
    /\ UNCHANGED <<analyzer_real_data, holdings, prices, apy_data, risk_metrics,
                   liquidity_info, analysis, port_exception,
                   port_clock, analysis_again>>
    /\ UNCHANGED <<scoreVars, riskVars, cacheVars, divVars, metVars, cfgVars,
                   slVars, lqVars, epVars, dfVars>>

\* lines 114-223 and the endpoint's try/except around them
AnalyzePortfolio ==
    /\ port_pc = "build"
    /\ analysis' = PortfolioResponse(Analyze(port_clock))
    /\ port_exception' = IF "error" \in DOMAIN analysis' THEN analysis'.message ELSE "none"
    /\ port_pc' = "done"
    /\ UNCHANGED <<analyzer_real_data, holdings, prices, apy_data, risk_metrics,
                   liquidity_info, restaking_data, fallback_sources, port_clock,
                   analysis_again>>
    /\ UNCHANGED <<scoreVars, riskVars, cacheVars, divVars, metVars, cfgVars,
                   slVars, lqVars, epVars, dfVars>>

\* the same request once more, every source returning what it returned before
AnalyzePortfolioAgain ==
    /\ port_pc = "done"
    /\ \E elapsed \in 0..MaxElapsed :
         /\ port_clock' = port_clock + elapsed
         /\ analysis_again' = PortfolioResponse(Analyze(port_clock + elapsed))
    /\ port_pc' = "again"
    /\ UNCHANGED <<analyzer_real_data, holdings, prices, apy_data, risk_metrics,
                   liquidity_info, restaking_data, fallback_sources, analysis,
                   port_exception>>
    /\ UNCHANGED <<scoreVars, riskVars, cacheVars, divVars, metVars, cfgVars,
                   slVars, lqVars, epVars, dfVars>>

PortfolioNext ==
    \/ GetCurrentPrices
    \/ GetApyData
    \/ GetRiskMetrics
    \/ GetLiquidityData
    \/ GetRestakingData
    \/ AnalyzePortfolio
    \/ AnalyzePortfolioAgain

(***************************************************************************)
(* etherfi_service.py: the module-level response cache and two of the      *)
(* getters that use it.  Time is in minutes; ETH prices are USD; APYs are  *)
(* ten-thousandths (0.032 is 320).                                         *)
(***************************************************************************)
CACHE_TTL == 5

CacheKeys == {"eth_price", "etherfi_apy"}

ApyDefaults == [apyStake |-> 320, apyLiquidUsd |-> 800]

\* a value of the key's type, standing where _cache has no entry
NoData(key) == IF key = "eth_price" THEN 0 ELSE ApyDefaults

NoEntry(key) == [present |-> FALSE, timestamp |-> 0, data |-> NoData(key)]

\* key in _cache and datetime.now() - timestamp <= CACHE_TTL
get_cached_inclusive(key) ==
    IF cache[key].present /\ now - cache[key].timestamp <= CACHE_TTL
    THEN Num(cache[key].data) ELSE PyNone

\* _get_cached: the data if key in _cache and datetime.now() - timestamp < CACHE_TTL
get_cached(key) ==
    IF cache[key].present /\ now - cache[key].timestamp < CACHE_TTL
    THEN Num(cache[key].data) ELSE PyNone

\* _set_cache: _cache[key] = (datetime.now(), data)
set_cache(key, data) ==
    [cache EXCEPT ![key] = [present |-> TRUE, timestamp |-> now, data |-> data]]

\* `if cached:` a float is true unless it is 0, the APY dict is never empty
Truthy(key, cached) ==
    /\ ~IsNone(cached)
    /\ key = "eth_price" => cached.value # 0

\* why a lookup did not return: no entry, an entry aged CACHE_TTL or more, or a
\* fresh entry whose data is false
MissKind(key, cached) ==
    IF ~cache[key].present THEN "absent"
    ELSE IF IsNone(cached) THEN "expired" ELSE "falsy"

Idle == [state |-> "idle", key |-> "none", miss |-> "none"]

NoReturn == [key |-> "none", kind |-> "none", value |-> 0, age |-> 0]

\* data.get("ethereum", {}).get("usd", 3500.0)
EthPriceOf(http_response) == IF http_response.kind = "usd" THEN http_response.usd ELSE 3500

RECURSIVE MaxApy(_, _, _)
\* max(best, apy) over the pools whose symbol is of the given kind
MaxApy(pools, symbol, best) ==
    IF pools = <<>> THEN best
    ELSE MaxApy(Tail(pools), symbol,
                IF Head(pools).symbol = symbol THEN Max(best, Head(pools).apy) ELSE best)

\* get_etherfi_apy_data, lines 96-117: the result built from the ether.fi pools
ApyResultOf(pools) ==
    LET apy_stake == MaxApy(pools, "eeth", 0)
        apy_liquid_usd == MaxApy(pools, "usd", 0)
    IN  [apyStake |-> IF apy_stake = 0 THEN 320 ELSE apy_stake,
         apyLiquidUsd |-> IF apy_liquid_usd = 0 THEN 800 ELSE apy_liquid_usd]

(***************************************************************************)
(* SpecCache: coroutines calling get_eth_price and get_etherfi_apy_data on *)
(* one event loop while the clock advances.  A coroutine runs without      *)
(* interruption up to its await of the HTTP http_response.                      *)
(***************************************************************************)
Callers == {1, 2}

EthPriceResponses ==
    {[kind |-> "raise"], [kind |-> "no_usd"], [kind |-> "usd", usd |-> 0],
     [kind |-> "usd", usd |-> 3000]}

PoolsResponses ==
    {[kind |-> "raise"],
     [kind |-> "pools", pools |-> <<>>],
     [kind |-> "pools", pools |-> <<[symbol |-> "eeth", apy |-> 400],
                                    [symbol |-> "usd", apy |-> 1200],
                                    [symbol |-> "weeth", apy |-> 350]>>]}

CacheInit ==
    /\ cache = [key \in CacheKeys |-> NoEntry(key)]
    /\ now = 0
    /\ caller_pc = [c \in Callers |-> Idle]
    /\ last_return = NoReturn

CacheIdle ==
    /\ cache = [key \in CacheKeys |-> NoEntry(key)]
    /\ now = 0
    /\ caller_pc = [c \in Callers |-> Idle]
    /\ last_return = NoReturn

\* the getter up to its first await: return the cached data, or start the fetch
Lookup(c, key) ==
    /\ LET cached == get_cached(key)
       IN  IF Truthy(key, cached)
           THEN /\ last_return' = [key |-> key, kind |-> "cached",
                                   value |-> cached.value,
                                   age |-> now - cache[key].timestamp]
                /\ UNCHANGED caller_pc
           ELSE /\ caller_pc' = [caller_pc EXCEPT ![c] =
                                    [state |-> "fetching", key |-> key,
                                     miss |-> MissKind(key, cached)]]
                /\ UNCHANGED last_return
    /\ UNCHANGED <<cache, now>>
    /\ UNCHANGED <<scoreVars, riskVars, portVars, divVars, metVars, cfgVars,
                   slVars, lqVars, epVars, dfVars>>

\* get_eth_price, lines 50-53
GetEthPrice ==
    \E c \in Callers :
        /\ caller_pc[c].state = "idle"
        /\ Lookup(c, "eth_price")

\* get_eth_price, lines 55-68: the http_response arrives, or the request raises
EthPriceResponse ==
    \E c \in Callers, http_response \in EthPriceResponses :
        /\ caller_pc[c].state = "fetching"
        /\ caller_pc[c].key = "eth_price"
        /\ IF http_response.kind = "raise"
           THEN /\ last_return' = [key |-> "eth_price", kind |-> "fallback",
                                   value |-> 3500, age |-> 0]
                /\ UNCHANGED cache
           ELSE /\ cache' = set_cache("eth_price", EthPriceOf(http_response))
                /\ last_return' = [key |-> "eth_price", kind |-> "fetched",
                                   value |-> EthPriceOf(http_response), age |-> 0]
        /\ caller_pc' = [caller_pc EXCEPT ![c] = Idle]
        /\ UNCHANGED now
        /\ UNCHANGED <<scoreVars, riskVars, portVars, divVars, metVars, cfgVars,
                       slVars, lqVars, epVars, dfVars>>

\* get_etherfi_apy_data, lines 76-79
GetEtherfiApyData ==
    \E c \in Callers :
        /\ caller_pc[c].state = "idle"
        /\ Lookup(c, "etherfi_apy")

\* get_etherfi_apy_data, lines 81-128
EtherfiApyResponse ==
    \E c \in Callers, http_response \in PoolsResponses :
        /\ caller_pc[c].state = "fetching"
        /\ caller_pc[c].key = "etherfi_apy"
        /\ IF http_response.kind = "raise"
           THEN /\ last_return' = [key |-> "etherfi_apy", kind |-> "fallback",
                                   value |-> ApyDefaults, age |-> 0]
                /\ UNCHANGED cache
           ELSE /\ cache' = set_cache("etherfi_apy", ApyResultOf(http_response.pools))
                /\ last_return' = [key |-> "etherfi_apy", kind |-> "fetched",
                                   value |-> ApyResultOf(http_response.pools), age |-> 0]
        /\ caller_pc' = [caller_pc EXCEPT ![c] = Idle]
        /\ UNCHANGED now
        /\ UNCHANGED <<scoreVars, riskVars, portVars, divVars, metVars, cfgVars,
                       slVars, lqVars, epVars, dfVars>>

\* a minute passes
Tick ==
    /\ now < MaxClock
    /\ now' = now + 1
    /\ UNCHANGED <<cache, caller_pc, last_return>>
    /\ UNCHANGED <<scoreVars, riskVars, portVars, divVars, metVars, cfgVars,
                   slVars, lqVars, epVars, dfVars>>

CacheNext ==
    \/ GetEthPrice
    \/ EthPriceResponse
    \/ GetEtherfiApyData
    \/ EtherfiApyResponse
    \/ Tick

(***************************************************************************)
(* SpecDiversification: the diversification branch of analyze_portfolio    *)
(* (two or more assets, lines 186-190) applied to two asset sets of the    *)
(* same size, every asset of positive value.                               *)
(***************************************************************************)
DiversificationInit ==
    /\ div_pc = "input"
    /\ \E n \in {2, 3} : values_a \in ValueLists(n) /\ values_b \in ValueLists(n)
    /\ div_a = -1
    /\ div_b = -1

DiversificationIdle ==
    /\ div_pc = "input"
    /\ values_a = <<1, 1>>
    /\ values_b = <<1, 1>>
    /\ div_a = -1
    /\ div_b = -1

ComputeDiversification ==
    /\ div_pc = "input"
    /\ div_pc' = "scored"
    /\ div_a' = DiversificationScores[values_a]
    /\ div_b' = DiversificationScores[values_b]
    /\ UNCHANGED <<values_a, values_b>>
    /\ UNCHANGED <<scoreVars, riskVars, portVars, cacheVars, metVars, cfgVars,
                   slVars, lqVars, epVars, dfVars>>

DiversificationNext == ComputeDiversification

(***************************************************************************)
(* SpecMetrics: lines 166-177 and 196-198 of analyze_portfolio applied to   *)
(* one assets list, in floats as Python computes them.  A price is given   *)
(* in cents and an apy in hundredths of a percent; the float is the one    *)
(* the decimal denotes (3610.12 for 361012 cents).                         *)
(***************************************************************************)
MaxAssets == 2

AssetInputs ==
    [balance : {1, 2}, price_cents : {350000, 361012}, apy : {320, 450},
     risk_score : {30, 50}, liquidity_score : {85}]

AssetLists == UNION {[1..n -> AssetInputs] : n \in 1..MaxAssets}

\* value_usd = balance * price, line 135
ValueUsd(asset) == FMul(FloatOf(asset.balance), FRatio(asset.price_cents, 100))

\* sum(asset.value_usd * asset.<field> ...) / total_value if total_value > 0 else 0
WeightedMean(values, factors, total_value) ==
    IF FLess(FZero, total_value)
    THEN FDiv(FSum([i \in 1..Len(values) |-> FMul(values[i], factors[i])]), total_value)
    ELSE FZero

\* lines 166-177 and 196-198 for the value_usd, apy and scores of the assets
WeightedMetrics(values, apys, risk_scores, liquidity_scores, total_value) ==
    [total_value_usd |-> total_value,
     blended_apy |-> WeightedMean(values, apys, total_value),
     overall_risk_score |-> FInt(WeightedMean(values, risk_scores, total_value)),
     liquidity_health |-> FInt(WeightedMean(values, liquidity_scores, total_value))]

FloatsOf(assets, field) == [i \in 1..Len(assets) |-> FloatOf(assets[i][field])]

MetricsInit ==
    /\ met_pc = "input"
    /\ met_assets \in AssetLists
    /\ met_metrics = Unset

MetricsIdle ==
    /\ met_pc = "input"
    /\ met_assets = <<>>
    /\ met_metrics = Unset

ComputeMetrics ==
    /\ met_pc = "input"
    /\ met_pc' = "done"
    /\ met_metrics' =
         WeightedMetrics([i \in 1..Len(met_assets) |-> ValueUsd(met_assets[i])],
                         [i \in 1..Len(met_assets) |-> FRatio(met_assets[i].apy, 100)],
                         FloatsOf(met_assets, "risk_score"),
                         FloatsOf(met_assets, "liquidity_score"),
                         FSum([i \in 1..Len(met_assets) |-> ValueUsd(met_assets[i])]))
    /\ UNCHANGED met_assets
    /\ UNCHANGED <<scoreVars, riskVars, portVars, cacheVars, divVars, cfgVars,
                   slVars, lqVars, epVars, dfVars>>

MetricsNext == ComputeMetrics

(***************************************************************************)
(* Sources whose credential or configuration can be missing:               *)
(* main.get_operator_metrics, etherfi_service.get_weeth_exchange_rate,     *)
(* BeaconchainClient.get_validator_performance and the analyzers' clients. *)
(* A fetch is modelled by its returned value and by the number of HTTP     *)
(* requests it sent before it returned.  An API key is "" when the         *)
(* variable is not set; a rate is in hundredths.                           *)
(***************************************************************************)
\* `not x` for a str or None
Falsy(x) == x \in {"", "None"}

ApiKeys == {"", "key"}

ValidatorIndexInputs == {"None", "", "1234"}

\* what the Rated endpoint answers: an error, or JSON with an uptime
RatedResponses ==
    {[kind |-> "raise"]} \cup {[kind |-> "json", uptime |-> u] : u \in {9990, 9800}}

\* main.get_operator_metrics
get_operator_metrics(rated_api_key, validator_index, http_response) ==
    IF Falsy(rated_api_key) \/ Falsy(validator_index)
    THEN [value |-> [kind |-> "mock"], requests |-> 0]
    ELSE IF http_response.kind = "raise"
    THEN [value |-> [kind |-> "empty"], requests |-> 1]
    ELSE [value |-> http_response, requests |-> 1]

NoRate == [present |-> FALSE, timestamp |-> 0, data |-> 0]

\* _get_cached("weeth_rate") followed by `if cached:`
WeethCached ==
    /\ weeth_cache.present
    /\ cfg_now - weeth_cache.timestamp < CACHE_TTL
    /\ weeth_cache.data # 0

\* etherfi_service.get_weeth_exchange_rate: the cached rate; 1.02 without a
\* key; otherwise 1.02 stored in the cache (no request is sent: the rate is a
\* literal inside the `async with`), or 1.02 from the except branch
get_weeth_exchange_rate(etherscan_api_key, client_raises) ==
    IF WeethCached
    THEN [value |-> [rate |-> weeth_cache.data], requests |-> 0, cache |-> weeth_cache]
    ELSE IF Falsy(etherscan_api_key) \/ client_raises
    THEN [value |-> [rate |-> 102], requests |-> 0, cache |-> weeth_cache]
    ELSE [value |-> [rate |-> 102], requests |-> 0,
          cache |-> [present |-> TRUE, timestamp |-> cfg_now, data |-> 102]]

\* what the beaconcha.in endpoint answers
BeaconResponses ==
    {[kind |-> "raise"], [kind |-> "no_data"], [kind |-> "bad_data"],
     [kind |-> "data", data |-> <<[attestations |-> 2, missed_attestations |-> 1]>>]}

\* BeaconchainClient.get_validator_performance: the apikey header is added
\* when there is a key, the GET is sent in either case
get_validator_performance(api_key, http_response) ==
    [value |-> IF http_response.kind = "raise" THEN [kind |-> "empty"] ELSE http_response,
     requests |-> 1,
     apikey_header |-> ~Falsy(api_key)]

\* what a source returns without any request
StaticFallback(fn) ==
    CASE fn = "get_operator_metrics" -> [kind |-> "mock"]
      [] fn = "get_weeth_exchange_rate" -> [rate |-> 102]
      [] fn = "get_validator_performance" -> [kind |-> "empty"]
      [] fn = "get_operator_uptime_data" -> UptimeMockTile

NoFetch == [fn |-> "none", value |-> [kind |-> "none"], requests |-> 0,
            config_missing |-> FALSE]

(***************************************************************************)
(* SpecConfig: fetches of the four sources under every configuration while *)
(* the clock advances.                                                     *)
(***************************************************************************)
Configurations ==
    [RATED_API_KEY : ApiKeys, ETHERSCAN_API_KEY : ApiKeys, BEACONCHAIN_API_KEY : ApiKeys,
     REAL_DATA_AVAILABLE : BOOLEAN]

ConfigInit ==
    /\ config \in Configurations
    /\ weeth_cache = NoRate
    /\ cfg_now = 0
    /\ cfg_return = NoFetch

ConfigIdle ==
    /\ config = [RATED_API_KEY |-> "", ETHERSCAN_API_KEY |-> "", BEACONCHAIN_API_KEY |-> "",
                 REAL_DATA_AVAILABLE |-> TRUE]
    /\ weeth_cache = NoRate
    /\ cfg_now = 0
    /\ cfg_return = NoFetch

GetOperatorMetrics ==
    /\ \E validator_index \in ValidatorIndexInputs, http_response \in RatedResponses :
         LET fetch == get_operator_metrics(config.RATED_API_KEY, validator_index,
                                           http_response)
         IN  cfg_return' = [fn |-> "get_operator_metrics",
                            value |-> fetch.value,
                            requests |-> fetch.requests,
                            config_missing |-> Falsy(config.RATED_API_KEY)
                                               \/ Falsy(validator_index)]
    /\ UNCHANGED <<config, weeth_cache, cfg_now>>
    /\ UNCHANGED <<scoreVars, riskVars, portVars, cacheVars, divVars, metVars,
                   slVars, lqVars, epVars, dfVars>>

GetWeethExchangeRate ==
    /\ \E client_raises \in BOOLEAN :
         LET fetch == get_weeth_exchange_rate(config.ETHERSCAN_API_KEY, client_raises)
         IN  /\ cfg_return' = [fn |-> "get_weeth_exchange_rate",
                               value |-> fetch.value,
                               requests |-> fetch.requests,
                               config_missing |-> Falsy(config.ETHERSCAN_API_KEY)]
             /\ weeth_cache' = fetch.cache
    /\ UNCHANGED <<config, cfg_now>>
    /\ UNCHANGED <<scoreVars, riskVars, portVars, cacheVars, divVars, metVars,
                   slVars, lqVars, epVars, dfVars>>

GetValidatorPerformance ==
    /\ \E http_response \in BeaconResponses :
         LET fetch == get_validator_performance(config.BEACONCHAIN_API_KEY, http_response)
         IN  cfg_return' = [fn |-> "get_validator_performance",
                            value |-> fetch.value,
                            requests |-> fetch.requests,
                            config_missing |-> Falsy(config.BEACONCHAIN_API_KEY)]
    /\ UNCHANGED <<config, weeth_cache, cfg_now>>
    /\ UNCHANGED <<scoreVars, riskVars, portVars, cacheVars, divVars, metVars,
                   slVars, lqVars, epVars, dfVars>>

\* EnhancedRiskAnalyzer.get_operator_uptime_data: without the client modules
\* there is no client and the mock tile is returned; with them
\* calculate_uptime_metrics sends the performance request
GetOperatorUptimeData ==
    /\ \E outcome \in UptimeCallOutcomes :
         cfg_return' = [fn |-> "get_operator_uptime_data",
                        value |-> get_operator_uptime_data(config.REAL_DATA_AVAILABLE,
                                                           outcome),
                        requests |-> IF config.REAL_DATA_AVAILABLE THEN 1 ELSE 0,
                        config_missing |-> ~config.REAL_DATA_AVAILABLE]
    /\ UNCHANGED <<config, weeth_cache, cfg_now>>
    /\ UNCHANGED <<scoreVars, riskVars, portVars, cacheVars, divVars, metVars,
                   slVars, lqVars, epVars, dfVars>>

\* a minute passes
ConfigTick ==
    /\ cfg_now < MaxClock
    /\ cfg_now' = cfg_now + 1
    /\ UNCHANGED <<config, weeth_cache, cfg_return>>
    /\ UNCHANGED <<scoreVars, riskVars, portVars, cacheVars, divVars, metVars,
                   slVars, lqVars, epVars, dfVars>>

ConfigNext ==
    \/ GetOperatorMetrics
    \/ GetWeethExchangeRate
    \/ GetValidatorPerformance
    \/ GetOperatorUptimeData
    \/ ConfigTick

(***************************************************************************)
(* SpecSlashing: the slashing proxy computed three ways on the same inputs: *)
(* EigenExplorerClient.calculate_slashing_risk_score on four inputs,        *)
(* get_slashing_proxy_data as generate_comprehensive_analysis calls it      *)
(* (client diversity 75, audit status "mixed"), and the legacy computation  *)
(* of main.risk_analysis and of the no-client branch.                       *)
(* On every uptime band, score 0..100, DVT flag and audit table entry the   *)
(* float sum of lines 241-262 truncates to the same integer as the exact    *)
(* sum in thousandths that calculate_slashing_risk_score uses here.         *)
(***************************************************************************)
SlashingUptimeInputs ==
    {0, 9800, 9899, 9900, 9901, 9930, 9949, 9950, 9951, 9989, 9990, 10000}

DiversityInputs == {0, 25, 50, 59, 60, 74, 75, 100}

AuditInputs == {"audited", "in_progress", "mixed", "none", "unknown"}

\* main.risk_analysis, lines 564-585: the slashing tile of an uptime
LegacySlashingTile(operator_uptime_pct) ==
    [proxy_score |-> LegacySlashingScore(operator_uptime_pct),
     operator_uptime_band |-> LegacyUptimeBand(operator_uptime_pct),
     avs_audit_status |-> "Mixed",
     client_diversity_band |-> "Amber",
     dvt_presence |-> TRUE]

SlashingInit ==
    /\ sl_pc = "input"
    /\ sl_uptime \in SlashingUptimeInputs
    /\ sl_diversity \in DiversityInputs
    /\ sl_dvt \in BOOLEAN
    /\ sl_audit \in AuditInputs
    /\ sl_client = Unset
    /\ sl_tile = Unset
    /\ sl_legacy = Unset

SlashingIdle ==
    /\ sl_pc = "input"
    /\ sl_uptime = 9950
    /\ sl_diversity = 75
    /\ sl_dvt = TRUE
    /\ sl_audit = "mixed"
    /\ sl_client = Unset
    /\ sl_tile = Unset
    /\ sl_legacy = Unset

\* eigenexplorer_client.py, lines 206-291
CalculateSlashingRiskScore ==
    /\ sl_pc = "input"
    /\ sl_client' = calculate_slashing_risk_score(sl_uptime, sl_diversity, sl_dvt, sl_audit)
    /\ sl_pc' = "client"
    /\ UNCHANGED <<sl_uptime, sl_diversity, sl_dvt, sl_audit, sl_tile, sl_legacy>>
    /\ UNCHANGED <<scoreVars, riskVars, portVars, cacheVars, divVars, metVars,
                   cfgVars, lqVars, epVars, dfVars>>

\* enhanced_risk_analysis.py, lines 275-301, called as in lines 388-392
GetSlashingProxyData ==
    /\ sl_pc = "client"
    /\ \E outcome \in PlainCallOutcomes :
         sl_tile' = get_slashing_proxy_data(TRUE, outcome, sl_uptime, 75, sl_dvt)
    /\ sl_pc' = "tile"
    /\ UNCHANGED <<sl_uptime, sl_diversity, sl_dvt, sl_audit, sl_client, sl_legacy>>
    /\ UNCHANGED <<scoreVars, riskVars, portVars, cacheVars, divVars, metVars,
                   cfgVars, lqVars, epVars, dfVars>>

\* enhanced_risk_analysis.py, lines 255-273, and main.py, lines 564-585
LegacySlashingProxy ==
    /\ sl_pc = "tile"
    /\ sl_legacy' = [no_client |-> get_slashing_proxy_data(FALSE, [raises |-> FALSE],
                                                           sl_uptime, 75, sl_dvt),
                     risk_analysis |-> LegacySlashingTile(sl_uptime)]
    /\ sl_pc' = "done"
    /\ UNCHANGED <<sl_uptime, sl_diversity, sl_dvt, sl_audit, sl_client, sl_tile>>
    /\ UNCHANGED <<scoreVars, riskVars, portVars, cacheVars, divVars, metVars,
                   cfgVars, lqVars, epVars, dfVars>>

SlashingNext ==
    \/ CalculateSlashingRiskScore
    \/ GetSlashingProxyData
    \/ LegacySlashingProxy

(***************************************************************************)
(* SpecLiquidity: calculate_liquidity_metrics on two pools of one fee tier, *)
(* and the liquidity health index of one list of venues as the legacy and   *)
(* the enhanced risk analysis compute it.  Pool depth is in $1,000 here so  *)
(* that shallow pools are in range; on these depths and fee tiers the float *)
(* expression of lines 171-172 truncates to the exact quotient used below.  *)
(***************************************************************************)
MaxVenues == 2

\* int((10000 / tvl) * 10000 + fee_tier / 100) for tvl in $1,000, else 9999
SlippageBpsThousands(tvl, fee_tier) ==
    IF tvl > 0 THEN TruncDiv(10000000 + fee_tier * tvl, 100 * tvl) ELSE 9999

PoolDetailThousands(pool) ==
    [tvl_usd |-> pool.tvl, slippage_bps |-> SlippageBpsThousands(pool.tvl, pool.fee_tier)]

\* calculate_liquidity_metrics, lines 163-193, on a non-empty list of pools
PoolMetrics(pools) ==
    LET pool_details == [i \in 1..Len(pools) |-> PoolDetailThousands(pools[i])]
    IN  [pools |-> pool_details, best_pool |-> MinSlippagePool(pool_details)]

PoolDepthInputs == {0, 1, 5, 9, 10, 11, 100, 1000, 5500, 10000}

FeeTierInputs == {100, 500, 3000, 10000}

PoolPairs ==
    {<<[tvl |-> a, fee_tier |-> f], [tvl |-> b, fee_tier |-> f]>> :
        a \in PoolDepthInputs, b \in PoolDepthInputs, f \in FeeTierInputs}

VenueInputs == [depth_usd : {0, 8, 55, 82, 110, 600}, slippage_bps : {5, 18, 25, 74, 150}]

VenueLists == UNION {[1..n -> VenueInputs] : n \in 0..MaxVenues}

NoDetails == [pools |-> <<>>, best_pool |-> [tvl_usd |-> 0, slippage_bps |-> 0]]

LiquidityInit ==
    /\ \/ lq_pc = "pools" /\ lq_pools \in PoolPairs /\ lq_venues = <<>>
       \/ lq_pc = "venues" /\ lq_pools = <<>> /\ lq_venues \in VenueLists
    /\ lq_details = NoDetails
    /\ lq_legacy_index = -1
    /\ lq_enhanced_index = -1

LiquidityIdle ==
    /\ lq_pc = "pools"
    /\ lq_pools = <<>>
    /\ lq_details = NoDetails
    /\ lq_venues = <<>>
    /\ lq_legacy_index = -1
    /\ lq_enhanced_index = -1

\* uniswap_client.py, lines 163-193
CalculateLiquidityMetrics ==
    /\ lq_pc = "pools"
    /\ lq_pools # <<>>
    /\ lq_details' = PoolMetrics(lq_pools)
    /\ lq_pc' = "done"
    /\ UNCHANGED <<lq_pools, lq_venues, lq_legacy_index, lq_enhanced_index>>
    /\ UNCHANGED <<scoreVars, riskVars, portVars, cacheVars, divVars, metVars,
                   cfgVars, slVars, epVars, dfVars>>

\* main.py, line 588: health_index = calculate_liquidity_health_index(liquidity_chains)
LegacyHealthIndex ==
    /\ lq_pc = "venues"
    /\ lq_legacy_index' = calculate_liquidity_health_index(lq_venues)
    /\ lq_pc' = "legacy"
    /\ UNCHANGED <<lq_pools, lq_details, lq_venues, lq_enhanced_index>>
    /\ UNCHANGED <<scoreVars, riskVars, portVars, cacheVars, divVars, metVars,
                   cfgVars, slVars, epVars, dfVars>>

\* enhanced_risk_analysis.py, lines 204-222: total_tvl of the listed venues,
\* then health_index = get_liquidity_depth_score(total_tvl)
EnhancedHealthIndex ==
    /\ lq_pc = "legacy"
    /\ lq_enhanced_index' = get_liquidity_depth_score(TotalDepth(lq_venues))
    /\ lq_pc' = "done"
    /\ UNCHANGED <<lq_pools, lq_details, lq_venues, lq_legacy_index>>
    /\ UNCHANGED <<scoreVars, riskVars, portVars, cacheVars, divVars, metVars,
                   cfgVars, slVars, epVars, dfVars>>

LiquidityNext ==
    \/ CalculateLiquidityMetrics
    \/ LegacyHealthIndex
    \/ EnhancedHealthIndex

(***************************************************************************)
(* SpecEndpoints: GET /prices/live/{product}, GET /summary/{product} and    *)
(* GET /summary of api_endpoints.py.  A product name is a sequence of       *)
(* one-character strings so that str.upper() is computed letter by letter.  *)
(***************************************************************************)
eETH == <<"e", "E", "T", "H">>

weETH == <<"w", "e", "E", "T", "H">>

ETHFI == <<"E", "T", "H", "F", "I">>

eBTC == <<"e", "B", "T", "C">>

\* the keys of the dict, in insertion order
ETHERFI_CONTRACTS == <<eETH, weETH, ETHFI, eBTC>>

ContractKeys == {ETHERFI_CONTRACTS[i] : i \in DOMAIN ETHERFI_CONTRACTS}

UpperLetter ==
    [b |-> "B", c |-> "C", e |-> "E", f |-> "F", h |-> "H", i |-> "I", t |-> "T",
     w |-> "W"]

\* str.upper()
upper(product) ==
    [i \in DOMAIN product |->
        IF product[i] \in DOMAIN UpperLetter THEN UpperLetter[product[i]] ELSE product[i]]

\* str.lower() on the letters of the product names
lower(product) ==
    [i \in DOMAIN product |->
        IF \E l \in DOMAIN UpperLetter : UpperLetter[l] = product[i]
        THEN CHOOSE l \in DOMAIN UpperLetter : UpperLetter[l] = product[i]
        ELSE product[i]]

\* the price DefiLlama quotes and the price stored in price_history, in USD
LivePriceOf(product) ==
    CASE product = eETH -> 3400 [] product = weETH -> 3600 [] product = ETHFI -> 2
      [] product = eBTC -> 98000

StoredPriceOf(product) ==
    CASE product = eETH -> 3300 [] product = weETH -> 3700 [] product = ETHFI -> 4
      [] product = eBTC -> 97000

HTTPException(status_code, detail, product) ==
    [status_code |-> status_code, detail |-> detail, product |-> product]

\* get_live_price, lines 112-132; live_prices is the dict get_current_prices returns
get_live_price(path, live_prices) ==
    LET product == upper(path)
    IN  IF product \notin ContractKeys
        THEN HTTPException(404, "Product not found", product)
        ELSE IF product \notin live_prices
        THEN HTTPException(404, "Price data not available", product)
        ELSE [status_code |-> 200, product |-> product, price |-> LivePriceOf(product)]

\* ((current_price - then.price) / then.price) * 100 as sign and magnitude
PriceChange(current_price, then_price) ==
    LET hi == FloatOf(Max(current_price, then_price))
        lo == FloatOf(Min(current_price, then_price))
    IN  [is_none |-> FALSE,
         negative |-> current_price < then_price,
         value |-> FMul(FDiv(FSub(hi, lo), FloatOf(then_price)), FloatOf(100))]

NoChange == [is_none |-> TRUE, negative |-> FALSE, value |-> FZero]

\* get_product_summary, lines 280-331
get_product_summary(path, live_prices, yield_pools, rows) ==
    LET product == upper(path)
        priced == product \in live_prices
        current_price == IF priced THEN Num(LivePriceOf(product)) ELSE PyNone
        found_pool == product \in yield_pools
    IN  IF product \notin ContractKeys
        THEN HTTPException(404, "Product not found", product)
        ELSE [status_code |-> 200,
              product |-> product,
              current_price |-> current_price,
              price_change_24h |->
                  IF priced /\ product \in rows.day
                  THEN PriceChange(LivePriceOf(product), StoredPriceOf(product))
                  ELSE NoChange,
              price_change_7d |->
                  IF priced /\ product \in rows.week
                  THEN PriceChange(LivePriceOf(product), StoredPriceOf(product))
                  ELSE NoChange,
              has_apy |-> found_pool]

\* get_all_summaries, lines 334-346: every raised exception skips the product
get_all_summaries(live_prices, yield_pools, rows) ==
    LET answers == [i \in DOMAIN ETHERFI_CONTRACTS |->
                        get_product_summary(ETHERFI_CONTRACTS[i], live_prices, yield_pools, rows)]
    IN  SelectSeq(answers, LAMBDA a : a.status_code = 200)

ProductPaths ==
    ContractKeys \cup {upper(k) : k \in ContractKeys} \cup {lower(k) : k \in ContractKeys}
        \cup {<<"B", "T", "C">>, <<"s", "t", "E", "T", "H">>}

PriceDicts == SUBSET ContractKeys

YieldPoolLists == {{}, {eETH, weETH}, ContractKeys}

RowSets == [day : {{}, ContractKeys}, week : {{}, {ETHFI, eETH}}]

NoAnswer == [status_code |-> 0]

EndpointsInit ==
    /\ ep_pc = "request"
    /\ ep_product \in ProductPaths
    /\ ep_prices \in PriceDicts
    /\ ep_pools \in YieldPoolLists
    /\ ep_rows \in RowSets
    /\ ep_live = NoAnswer
    /\ ep_summary = NoAnswer
    /\ ep_summaries = <<>>

EndpointsIdle ==
    /\ ep_pc = "request"
    /\ ep_product = ETHFI
    /\ ep_prices = {}
    /\ ep_pools = {}
    /\ ep_rows = [day |-> {}, week |-> {}]
    /\ ep_live = NoAnswer
    /\ ep_summary = NoAnswer
    /\ ep_summaries = <<>>

GetLivePrice ==
    /\ ep_pc = "request"
    /\ ep_live' = get_live_price(ep_product, ep_prices)
    /\ ep_pc' = "live"
    /\ UNCHANGED <<ep_product, ep_prices, ep_pools, ep_rows, ep_summary, ep_summaries>>
    /\ UNCHANGED <<scoreVars, riskVars, portVars, cacheVars, divVars, metVars,
                   cfgVars, slVars, lqVars, dfVars>>

GetProductSummary ==
    /\ ep_pc = "live"
    /\ ep_summary' = get_product_summary(ep_product, ep_prices, ep_pools, ep_rows)
    /\ ep_pc' = "summary"
    /\ UNCHANGED <<ep_product, ep_prices, ep_pools, ep_rows, ep_live, ep_summaries>>
    /\ UNCHANGED <<scoreVars, riskVars, portVars, cacheVars, divVars, metVars,
                   cfgVars, slVars, lqVars, dfVars>>

GetAllSummaries ==
    /\ ep_pc = "summary"
    /\ ep_summaries' = get_all_summaries(ep_prices, ep_pools, ep_rows)
    /\ ep_pc' = "done"
    /\ UNCHANGED <<ep_product, ep_prices, ep_pools, ep_rows, ep_live, ep_summary>>
    /\ UNCHANGED <<scoreVars, riskVars, portVars, cacheVars, divVars, metVars,
                   cfgVars, slVars, lqVars, dfVars>>

EndpointsNext == GetLivePrice \/ GetProductSummary \/ GetAllSummaries

(***************************************************************************)
(* SpecFetcher: DataFetcherService.start() with stop() called from another  *)
(* task at its await points, and the inserts of one fetch cycle through one *)
(* SQLAlchemy session.  Time is counted in fetch intervals.                 *)
(***************************************************************************)
MaxCycles == 2

\* the columns of the table's UniqueConstraint
UniqueKey(row) ==
    IF row.table = "price_history"
    THEN <<row.table, row.product, row.timestamp, row.source>>
    ELSE <<row.table, row.product, row.timestamp>>

\* the INSERT is refused: timestamp is nullable=False, the key is unique
Violates(row, rows) ==
    \/ IsNone(row.timestamp)
    \/ \E r \in rows : UniqueKey(r) = UniqueKey(row)

\* SessionLocal()
NewSession == [pending |-> {}, inactive |-> FALSE]

\* db.add(entry)
db_add(session, row) == [session EXCEPT !.pending = @ \cup {row}]

\* db.commit(): flushes the pending objects in one transaction; a refused
\* INSERT raises and leaves the session in a failed transaction
db_commit(session, rows) ==
    IF session.inactive \/ \E row \in session.pending : Violates(row, rows)
    THEN [raised |-> TRUE, session |-> [session EXCEPT !.inactive = TRUE], rows |-> rows]
    ELSE [raised |-> FALSE, session |-> NewSession, rows |-> rows \cup session.pending]

\* the session as it is when the except branch does not call db.rollback()
rollback_skipped(session) == session

\* db.rollback(): the pending objects are expunged, the transaction is reset
db_rollback(session) == NewSession

\* lines 44-54 and 78-88: add, commit, and rollback on any exception
AddAndCommit(db, row) ==
    LET done == db_commit(db_add(db.session, row), db.rows)
        entry == [row |-> row,
                  outcome |-> IF done.raised THEN "rolled_back" ELSE "stored",
                  before |-> db.rows,
                  after |-> done.rows]
    IN  [session |-> IF done.raised THEN db_rollback(done.session) ELSE done.session,
         rows |-> done.rows,
         log |-> Append(db.log, entry)]

PriceHistory(product, data) ==
    [table |-> "price_history", product |-> product, price |-> data.price,
     timestamp |-> data.timestamp, source |-> "defillama"]

APYHistory(product, timestamp) ==
    [table |-> "apy_history", product |-> product, timestamp |-> Num(timestamp)]

RECURSIVE StorePricesFrom(_, _, _)
\* the loop of lines 30-54 from the i-th product of the dict on
StorePricesFrom(i, live_prices, db) ==
    LET product == ETHERFI_CONTRACTS[i]
        data == live_prices[product]
        row == PriceHistory(product, data)
        skipped == [row |-> row, outcome |-> "skipped", before |-> db.rows,
                    after |-> db.rows]
    IN  IF i > Len(ETHERFI_CONTRACTS) THEN db
        ELSE IF product \notin DOMAIN live_prices THEN StorePricesFrom(i + 1, live_prices, db)
        ELSE IF IsNone(data.price)
        THEN StorePricesFrom(i + 1, live_prices, [db EXCEPT !.log = Append(@, skipped)])
        ELSE StorePricesFrom(i + 1, live_prices, AddAndCommit(db, row))

\* fetch_and_store_prices, lines 22-57
fetch_and_store_prices(db, live_prices) == StorePricesFrom(1, live_prices, db)

RECURSIVE StoreApyFrom(_, _, _, _)
\* the loop of lines 67-88
StoreApyFrom(i, apy_products, timestamp, db) ==
    IF i > Len(ETHERFI_CONTRACTS) THEN db
    ELSE IF ETHERFI_CONTRACTS[i] \notin apy_products
    THEN StoreApyFrom(i + 1, apy_products, timestamp, db)
    ELSE StoreApyFrom(i + 1, apy_products, timestamp,
                      AddAndCommit(db, APYHistory(ETHERFI_CONTRACTS[i], timestamp)))

\* fetch_and_store_apy, lines 59-91
fetch_and_store_apy(db, apy_products, timestamp) ==
    StoreApyFrom(1, apy_products, timestamp, db)

\* what DefiLlama says of one coin: quoted now, quoted one interval ago,
\* without a timestamp, without a price
CoinData(shape, timestamp_now, cycle) ==
    CASE shape = "fresh" -> [price |-> Num(3400 + cycle), timestamp |-> Num(timestamp_now)]
      [] shape = "stale" -> [price |-> Num(3400 + cycle), timestamp |-> Num(timestamp_now - 1)]
      [] shape = "null_timestamp" -> [price |-> Num(3400 + cycle), timestamp |-> PyNone]
      [] shape = "no_price" -> [price |-> PyNone, timestamp |-> Num(timestamp_now)]

\* the answers for eETH, weETH and ETHFI; an "absent" coin is not in the dict
PriceShapes ==
    {<<"fresh", "fresh", "fresh">>, <<"stale", "stale", "stale">>,
     <<"fresh", "stale", "fresh">>, <<"fresh", "null_timestamp", "fresh">>,
     <<"no_price", "fresh", "stale">>, <<"absent", "absent", "absent">>}

\* the dict get_current_prices returns for a shape
CurrentPrices(shape, timestamp_now, cycle) ==
    [product \in {ETHERFI_CONTRACTS[i] : i \in {j \in 1..3 : shape[j] # "absent"}} |->
        CoinData(shape[CHOOSE j \in 1..3 : ETHERFI_CONTRACTS[j] = product], timestamp_now, cycle)]

ApyProductSets == {{}, {eETH, weETH}}

NeverStopped == [called |-> FALSE, pc |-> "init", cycles |-> 0]

FetcherInit ==
    /\ df_pc = "init"
    /\ df_running = FALSE
    /\ df_now = 0
    /\ df_cycles = 0
    /\ df_stop = NeverStopped
    /\ df_session = NewSession
    /\ df_rows = {}
    /\ df_log = <<>>

FetcherIdle == FetcherInit

\* start() up to the first await of run_fetch_cycle
Start ==
    /\ df_pc = "init"
    /\ df_running' = TRUE
    /\ df_cycles' = df_cycles + 1
    /\ df_session' = NewSession
    /\ df_log' = <<>>
    /\ df_pc' = "prices"
    /\ UNCHANGED <<df_now, df_stop, df_rows>>
    /\ UNCHANGED <<scoreVars, riskVars, portVars, cacheVars, divVars, metVars,
                   cfgVars, slVars, lqVars, epVars>>

\* get_current_prices answers; fetch_and_store_prices runs to the next await
StorePrices ==
    /\ df_pc = "prices"
    /\ \E shape \in PriceShapes :
          LET db == fetch_and_store_prices(
                        [session |-> df_session, rows |-> df_rows, log |-> df_log],
                        CurrentPrices(shape, df_now, df_cycles))
          IN  /\ df_session' = db.session
              /\ df_rows' = db.rows
              /\ df_log' = db.log
    /\ df_pc' = "apy"
    /\ UNCHANGED <<df_running, df_now, df_cycles, df_stop>>
    /\ UNCHANGED <<scoreVars, riskVars, portVars, cacheVars, divVars, metVars,
                   cfgVars, slVars, lqVars, epVars>>

\* get_all_apys answers; fetch_and_store_apy, db.close(), and the test of
\* `while self.running` that follows run_fetch_cycle
StoreApy ==
    /\ df_pc = "apy"
    /\ \E apy_products \in ApyProductSets :
          LET db == fetch_and_store_apy(
                        [session |-> df_session, rows |-> df_rows, log |-> df_log],
                        apy_products, df_now)
          IN  /\ df_rows' = db.rows
              /\ df_log' = db.log
    /\ df_session' = NewSession
    /\ df_pc' = IF df_running THEN "sleeping" ELSE "exited"
    /\ UNCHANGED <<df_running, df_now, df_cycles, df_stop>>
    /\ UNCHANGED <<scoreVars, riskVars, portVars, cacheVars, divVars, metVars,
                   cfgVars, slVars, lqVars, epVars>>

\* asyncio.sleep returns and run_fetch_cycle is called, lines 154-155
Wake ==
    /\ df_pc = "sleeping"
    /\ df_cycles < MaxCycles
    /\ df_now' = df_now + 1
    /\ df_cycles' = df_cycles + 1
    /\ df_session' = NewSession
    /\ df_log' = <<>>
    /\ df_pc' = "prices"
    /\ UNCHANGED <<df_running, df_stop, df_rows>>
    /\ UNCHANGED <<scoreVars, riskVars, portVars, cacheVars, divVars, metVars,
                   cfgVars, slVars, lqVars, epVars>>

\* stop(), called by another task while start() is suspended
Stop ==
    /\ df_pc \in {"prices", "apy", "sleeping"}
    /\ df_running' = FALSE
    /\ df_stop' = IF df_stop.called THEN df_stop
                  ELSE [called |-> TRUE, pc |-> df_pc, cycles |-> df_cycles]
    /\ UNCHANGED <<df_pc, df_now, df_cycles, df_session, df_rows, df_log>>
    /\ UNCHANGED <<scoreVars, riskVars, portVars, cacheVars, divVars, metVars,
                   cfgVars, slVars, lqVars, epVars>>

FetcherNext == Start \/ StorePrices \/ StoreApy \/ Wake \/ Stop

(***************************************************************************)
(* SpecScore: the scorers applied to bounded inputs, in and out of range.  *)
(***************************************************************************)
OutOfRangeSteps == 1..MaxOutOfRange

\* operator uptime, hundredths of a percent
UptimeInputs ==
    {0, 5000, 9800, 9899, 9900, 9930, 9949, 9950, 9990, 10000}
    \cup {-(5000 * i) : i \in OutOfRangeSteps}
    \cup {10000 + 5000 * i : i \in OutOfRangeSteps}

\* largest AVS share, tenths of a percent
ShareInputs ==
    {0, 300, 460, 500, 501, 700, 1000}
    \cup {-(500 * i) : i \in OutOfRangeSteps}
    \cup {1000 + 500 * i : i \in OutOfRangeSteps}

SlashingInputs ==
    {0, 10, 18, 30, 31, 45, 100}
    \cup {-(50 * i) : i \in OutOfRangeSteps}
    \cup {100 + 50 * i : i \in OutOfRangeSteps}

LiquidityInputs ==
    {0, 50, 69, 70, 75, 90, 100}
    \cup {-(50 * i) : i \in OutOfRangeSteps}
    \cup {100 + 50 * i : i \in OutOfRangeSteps}

ScoreInit ==
    /\ score_pc = "input"
    /\ operator_uptime \in UptimeInputs
    /\ largest_avs_pct \in ShareInputs
    /\ slashing_score \in SlashingInputs
    /\ liquidity_health \in LiquidityInputs
    /\ legacy_result = NoResult
    /\ enhanced_result = NoResult

ScoreIdle ==
    /\ score_pc = "input"
    /\ operator_uptime = 9930
    /\ largest_avs_pct = 460
    /\ slashing_score = 18
    /\ liquidity_health = 75
    /\ legacy_result = NoResult
    /\ enhanced_result = NoResult

\* one call of each scorer on the same arguments
ComputeScore ==
    /\ score_pc = "input"
    /\ score_pc' = "scored"
    /\ legacy_result' = calculate_risk_score(operator_uptime, largest_avs_pct,
                                             slashing_score, liquidity_health)
    /\ enhanced_result' = calculate_overall_risk_score(operator_uptime, largest_avs_pct,
                                                       slashing_score, liquidity_health)
    /\ UNCHANGED <<operator_uptime, largest_avs_pct, slashing_score, liquidity_health>>
    /\ UNCHANGED <<riskVars, portVars, cacheVars, divVars, metVars, cfgVars,
                   slVars, lqVars, epVars, dfVars>>

ScoreNext == ComputeScore

(***************************************************************************)
(* Specifications. Each one runs one part of the backend; the variables of *)
(* the other parts rest at their idle values.                              *)
(***************************************************************************)
InitScore ==
    /\ ScoreInit
    /\ RiskIdle /\ PortfolioIdle /\ CacheIdle /\ DiversificationIdle
    /\ MetricsIdle /\ ConfigIdle /\ SlashingIdle /\ LiquidityIdle
    /\ EndpointsIdle /\ FetcherIdle

SpecScore == InitScore /\ [][ScoreNext]_vars

InitRisk ==
    /\ RiskInit
    /\ ScoreIdle /\ PortfolioIdle /\ CacheIdle /\ DiversificationIdle
    /\ MetricsIdle /\ ConfigIdle /\ SlashingIdle /\ LiquidityIdle
    /\ EndpointsIdle /\ FetcherIdle

SpecRisk == InitRisk /\ [][RiskNext]_vars

InitPortfolio ==
    /\ PortfolioInit
    /\ ScoreIdle /\ RiskIdle /\ CacheIdle /\ DiversificationIdle
    /\ MetricsIdle /\ ConfigIdle /\ SlashingIdle /\ LiquidityIdle
    /\ EndpointsIdle /\ FetcherIdle

SpecPortfolio == InitPortfolio /\ [][PortfolioNext]_vars

InitCache ==
    /\ CacheInit
    /\ ScoreIdle /\ RiskIdle /\ PortfolioIdle /\ DiversificationIdle
    /\ MetricsIdle /\ ConfigIdle /\ SlashingIdle /\ LiquidityIdle
    /\ EndpointsIdle /\ FetcherIdle

SpecCache == InitCache /\ [][CacheNext]_vars

InitDiversification ==
    /\ DiversificationInit
    /\ ScoreIdle /\ RiskIdle /\ PortfolioIdle /\ CacheIdle
    /\ MetricsIdle /\ ConfigIdle /\ SlashingIdle /\ LiquidityIdle
    /\ EndpointsIdle /\ FetcherIdle

SpecDiversification == InitDiversification /\ [][DiversificationNext]_vars

InitMetrics ==
    /\ MetricsInit
    /\ ScoreIdle /\ RiskIdle /\ PortfolioIdle /\ CacheIdle
    /\ DiversificationIdle /\ ConfigIdle /\ SlashingIdle /\ LiquidityIdle
    /\ EndpointsIdle /\ FetcherIdle

SpecMetrics == InitMetrics /\ [][MetricsNext]_vars

InitConfig ==
    /\ ConfigInit
    /\ ScoreIdle /\ RiskIdle /\ PortfolioIdle /\ CacheIdle
    /\ DiversificationIdle /\ MetricsIdle /\ SlashingIdle /\ LiquidityIdle
    /\ EndpointsIdle /\ FetcherIdle

SpecConfig == InitConfig /\ [][ConfigNext]_vars

InitSlashing ==
    /\ SlashingInit
    /\ ScoreIdle /\ RiskIdle /\ PortfolioIdle /\ CacheIdle
    /\ DiversificationIdle /\ MetricsIdle /\ ConfigIdle /\ LiquidityIdle
    /\ EndpointsIdle /\ FetcherIdle

SpecSlashing == InitSlashing /\ [][SlashingNext]_vars

InitLiquidity ==
    /\ LiquidityInit
    /\ ScoreIdle /\ RiskIdle /\ PortfolioIdle /\ CacheIdle
    /\ DiversificationIdle /\ MetricsIdle /\ ConfigIdle /\ SlashingIdle
    /\ EndpointsIdle /\ FetcherIdle

SpecLiquidity == InitLiquidity /\ [][LiquidityNext]_vars

InitEndpoints ==
    /\ EndpointsInit
    /\ ScoreIdle /\ RiskIdle /\ PortfolioIdle /\ CacheIdle
    /\ DiversificationIdle /\ MetricsIdle /\ ConfigIdle /\ SlashingIdle
    /\ LiquidityIdle /\ FetcherIdle

SpecEndpoints == InitEndpoints /\ [][EndpointsNext]_vars

InitFetcher ==
    /\ FetcherInit
    /\ ScoreIdle /\ RiskIdle /\ PortfolioIdle /\ CacheIdle
    /\ DiversificationIdle /\ MetricsIdle /\ ConfigIdle /\ SlashingIdle
    /\ LiquidityIdle /\ EndpointsIdle

SpecFetcher == InitFetcher /\ [][FetcherNext]_vars

(***************************************************************************)
(* C1: for every input, in range or not, both scorers return an integer    *)
(* score between 0 and 100.                                                *)
(***************************************************************************)
C1_ScoreInRange ==
    score_pc = "scored" =>
        /\ legacy_result.score \in 0..100
        /\ enhanced_result.score \in 0..100

\* an extreme, out-of-range call whose unclamped sum is far above 100 has been scored
C1_Witness ==
    /\ score_pc = "scored"
    /\ operator_uptime = 0
    /\ largest_avs_pct >= 1000
    /\ slashing_score >= 100
    /\ liquidity_health <= 0
    /\ legacy_result.score = 100
    /\ enhanced_result.score = 100

(***************************************************************************)
(* C11: top_reasons has 1 to 3 entries: the reasons of the factors that    *)
(* trigger, in the order concentration (share > 50), liquidity (health <   *)
(* 70), uptime (< 99.5), slashing (proxy > 30), cut to the first three;    *)
(* it is the three all-clear strings exactly when no factor triggers.      *)
(***************************************************************************)
FactorsByPriority ==
    << [hit |-> largest_avs_pct > 500, reason |-> "High AVS concentration"],
       [hit |-> liquidity_health < 70, reason |-> "Moderate liquidity depth"],
       [hit |-> operator_uptime < 9950, reason |-> "Operator uptime below optimal"],
       [hit |-> slashing_score > 30, reason |-> "Elevated slashing risk score"] >>

IsHit(factor) == factor.hit

Triggered == SelectSeq(FactorsByPriority, IsHit)

ExpectedReasons ==
    IF Triggered = <<>>
    THEN <<"Low overall risk across all metrics", "Strong operator performance",
           "Well-diversified AVS allocation">>
    ELSE [i \in 1..Min(3, Len(Triggered)) |-> Triggered[i].reason]

C11_TopReasons ==
    score_pc = "scored" =>
        \A result \in {legacy_result, enhanced_result} :
            /\ Len(result.top_reasons) \in 1..3
            /\ result.top_reasons = ExpectedReasons
            /\ (Triggered = <<>>) <=>
                   (result.top_reasons = <<"Low overall risk across all metrics",
                                           "Strong operator performance",
                                           "Well-diversified AVS allocation">>)

\* uptime 98.0, share 70, liquidity 50, slashing 45: all four factors trigger and
\* the slashing reason is the one cut off
C11_Witness ==
    /\ score_pc = "scored"
    /\ operator_uptime = 9800 /\ largest_avs_pct = 700
    /\ liquidity_health = 50 /\ slashing_score = 45
    /\ legacy_result.top_reasons = <<"High AVS concentration", "Moderate liquidity depth",
                                     "Operator uptime below optimal">>
    /\ enhanced_result.top_reasons = legacy_result.top_reasons

(***************************************************************************)
(* C12: the grade depends on the score alone: Safe iff score < 35,         *)
(* Moderate iff 35 <= score < 65, High iff score >= 65; uptime 99.9,       *)
(* share 30, liquidity 90, slashing 10 is graded Safe and uptime 98.0,     *)
(* share 70, liquidity 50, slashing 45 is graded High.                     *)
(***************************************************************************)
GradedByScore(result) ==
    /\ result.grade \in {"Safe", "Moderate", "High"}
    /\ result.grade = "Safe" <=> result.score < 35
    /\ result.grade = "Moderate" <=> (35 <= result.score /\ result.score < 65)
    /\ result.grade = "High" <=> result.score >= 65

C12_GradeThresholds ==
    score_pc = "scored" =>
        /\ GradedByScore(legacy_result)
        /\ GradedByScore(enhanced_result)
        /\ (operator_uptime = 9990 /\ largest_avs_pct = 300 /\ liquidity_health = 90
              /\ slashing_score = 10)
             => (legacy_result.grade = "Safe" /\ enhanced_result.grade = "Safe")
        /\ (operator_uptime = 9800 /\ largest_avs_pct = 700 /\ liquidity_health = 50
              /\ slashing_score = 45)
             => (legacy_result.grade = "High" /\ enhanced_result.grade = "High")

\* a call scored exactly 35, the lowest Moderate score
C12_Witness ==
    /\ score_pc = "scored"
    /\ legacy_result.score = 35 /\ legacy_result.grade = "Moderate"
    /\ enhanced_result.score = 35 /\ enhanced_result.grade = "Moderate"

(***************************************************************************)
(* C2: when every client call of the request raises, the enhanced analysis *)
(* does not raise: each failure is absorbed in its own get_*_data method   *)
(* and the response carries score, grade, reasons, the four tiles and the  *)
(* distribution, all of them the static fallback values.                   *)
(***************************************************************************)
AllClientCalls == {"uptime", "avs", "liquidity", "distribution", "slashing"}

FallbackResponse ==
    [address |-> address,
     methodology_version |-> "efi-risk-v2.0-real-data",
     risk_score |-> [score |-> 37, grade |-> "Moderate",
                     top_reasons |-> <<"Operator uptime below optimal">>],
     tiles |-> [operator_uptime |-> UptimeFallbackTile,
                avs_concentration |-> AvsFallbackTile,
                slashing_proxy |-> SlashingFallbackTile,
                liquidity_depth |-> LiquidityFallbackTile],
     breakdown |-> [distribution |-> DistributionFallback]]

C2_FailuresAbsorbed ==
    /\ ~enhanced_error
    /\ (risk_pc = "done" /\ failed_calls = AllClientCalls) => response = FallbackResponse

\* a finished request all five of whose client calls raised
C2_Witness ==
    /\ risk_pc = "done"
    /\ real_data_available
    /\ failed_calls = AllClientCalls
    /\ IsSet(response)

NegativeBalance == \E f \in DOMAIN holdings : holdings[f] < 0

(***************************************************************************)
(* C3: when the price feed lists a held product without a usable price     *)
(* (prices then holds None for it), analyze_portfolio does not raise: the  *)
(* asset is returned at the fallback price with the metrics.               *)
(***************************************************************************)
NullPriceHeld ==
    \/ holdings.eeth_balance > 0 /\ IsNone(prices.eETH)
    \/ holdings.weeth_balance > 0 /\ IsNone(prices.weETH)

FallbackPriceOf(symbol) == PricesFallback[symbol].value

C3_MalformedPriceAbsorbed ==
    (port_pc = "done" /\ ~NegativeBalance /\ NullPriceHeld) =>
        /\ port_exception = "none"
        /\ \A i \in 1..Len(analysis.assets) :
             LET asset == analysis.assets[i]
             IN  (asset.symbol \in {"eETH", "weETH"} /\ IsNone(prices[asset.symbol]))
                    => asset.current_price = FallbackPriceOf(asset.symbol)

(***************************************************************************)
(* C4: when the held assets are worth 0 USD in total, analyze_portfolio    *)
(* completes and blended_apy, overall_risk_score and liquidity_health are  *)
(* all 0.                                                                  *)
(***************************************************************************)
ZeroTotalValue ==
    LET built == BuildAssets(AssetCandidates(holdings, prices, apy_data, risk_metrics,
                                             liquidity_info))
    IN  built.exception = "none" /\ SumValue(built.assets) = 0

C4_ZeroValueNoDivision ==
    (port_pc = "done" /\ ~NegativeBalance /\ ZeroTotalValue) =>
        /\ port_exception = "none"
        /\ analysis.metrics.blended_apy.num = 0
        /\ analysis.metrics.overall_risk_score = 0
        /\ analysis.metrics.liquidity_health = 0

(***************************************************************************)
(* C5: a portfolio analysis in which some source's values are fallbacks is *)
(* not marked data_quality "real".                                         *)
(***************************************************************************)
C5_ProvenanceNotOverstated ==
    (port_pc = "done" /\ ~NegativeBalance /\ port_exception = "none"
        /\ fallback_sources # {}) =>
        analysis.data_quality # "real"

(***************************************************************************)
(* C6: a getter never returns a cache entry that was stored CACHE_TTL      *)
(* minutes or longer ago; the lookup of such an entry is a miss and the    *)
(* caller fetches again.                                                   *)
(***************************************************************************)
C6_NeverServesExpired ==
    /\ last_return.kind = "cached" => last_return.age < CACHE_TTL
    /\ \A c \in Callers :
         caller_pc[c].miss = "expired" => caller_pc[c].state = "fetching"

\* an entry aged CACHE_TTL or more was looked up and its caller is refetching,
\* after an entry one minute younger than that had been served from the cache
C6_Witness ==
    /\ last_return.kind = "cached"
    /\ last_return.age = CACHE_TTL - 1
    /\ \E c \in Callers : caller_pc[c].miss = "expired"

(***************************************************************************)
(* C7: at no time are two fetches of the same cache key in flight.         *)
(***************************************************************************)
InFlight(key) ==
    {c \in Callers : caller_pc[c].state = "fetching" /\ caller_pc[c].key = key}

C7_SingleFlight == \A key \in CacheKeys : Cardinality(InFlight(key)) <= 1

(***************************************************************************)
(* C8: holdings with a negative balance are rejected: the caller gets an   *)
(* error and no analysis.                                                  *)
(***************************************************************************)
C8_NegativeBalanceRejected ==
    (port_pc = "done" /\ NegativeBalance) =>
        /\ "error" \in DOMAIN analysis
        /\ "assets" \notin DOMAIN analysis

(***************************************************************************)
(* C9: every AVS concentration profile handed to the caller has            *)
(* hhi = sum of (pct/100)^2 over its avs_split, up to the rounding to four *)
(* decimals, and largest_avs_pct = the greatest pct of its avs_split.      *)
(***************************************************************************)
ProfileConsistent(profile) ==
    /\ Abs(100 * profile.hhi - SumSquares(profile.avs_split)) <= 50
    /\ profile.largest_avs_pct =
         (IF profile.avs_split = <<>> THEN 0 ELSE SeqMax(profile.avs_split))

C9_ProfileInvariant ==
    IsSet(response) => ProfileConsistent(response.tiles.avs_concentration)

(***************************************************************************)
(* C10: every uptime value calculate_uptime_metrics produces and           *)
(* get_operator_uptime_data passes on has missed_attestations <=           *)
(* total_attestations and an uptime_pct between 0 and 100.                 *)
(***************************************************************************)
C10_UptimeConsistent ==
    /\ IsSet(uptime_metrics) =>
         /\ uptime_metrics.missed_attestations <= uptime_metrics.total_attestations
         /\ uptime_metrics.uptime_pct \in 0..10000
    /\ IsSet(uptime_data) => uptime_data.uptime_7d_pct \in 0..10000


(***************************************************************************)
(* C13: a second call of analyze_portfolio with the same holdings, every   *)
(* source returning the same values, returns a result equal to the first   *)
(* in every field.                                                         *)
(***************************************************************************)
C13_Idempotent ==
    (port_pc = "again" /\ ~NegativeBalance) => analysis_again = analysis

(***************************************************************************)
(* C14: Conservative Hold is recommended iff overall_risk_score < 40,      *)
(* Yield Optimization iff liquidity_health > 80 with expected_apy =        *)
(* blended_apy x 1.5, Diversification iff diversification_score < 60 with  *)
(* expected_apy = blended_apy x 0.9; each rule is decided on its own.      *)
(***************************************************************************)
RECURSIVE Gcd(_, _)
Gcd(a, b) == IF b = 0 THEN a ELSE Gcd(b, a % b)

\* a fraction in lowest terms
Lowest(r) ==
    LET g == Gcd(Abs(r.num), r.den)
    IN  IF g = 0 THEN r ELSE [num |-> r.num \div g, den |-> r.den \div g]

SameFraction(r, q) == Lowest(r) = Lowest(q)

Recommended(name) ==
    \E i \in 1..Len(analysis.recommendations) : analysis.recommendations[i].name = name

ExpectedApyOf(name) ==
    LET i == CHOOSE j \in 1..Len(analysis.recommendations) :
                 analysis.recommendations[j].name = name
    IN  analysis.recommendations[i].expected_apy

C14_RecommendationRules ==
    (port_pc = "done" /\ port_exception = "none") =>
        LET m == analysis.metrics
        IN  /\ Recommended("Conservative Hold") <=> m.overall_risk_score < 40
            /\ Recommended("Yield Optimization") <=> m.liquidity_health > 80
            /\ Recommended("Diversification") <=> m.diversification_score < 60
            /\ Recommended("Yield Optimization") =>
                 SameFraction(ExpectedApyOf("Yield Optimization"),
                              [num |-> 3 * m.blended_apy.num, den |-> 2 * m.blended_apy.den])
            /\ Recommended("Diversification") =>
                 SameFraction(ExpectedApyOf("Diversification"),
                              [num |-> 9 * m.blended_apy.num, den |-> 10 * m.blended_apy.den])
            /\ \A i \in 1..Len(analysis.recommendations) :
                 analysis.recommendations[i].name
                    \in {"Conservative Hold", "Yield Optimization", "Diversification"}

\* three assets of near-equal value, risky and illiquid enough that none of the
\* three rules fires although the portfolio has a positive blended APY
C14_Witness ==
    /\ port_pc = "done"
    /\ port_exception = "none"
    /\ ~NegativeBalance
    /\ analysis.metrics.overall_risk_score >= 40
    /\ analysis.metrics.liquidity_health <= 80
    /\ analysis.metrics.diversification_score >= 60
    /\ analysis.metrics.blended_apy.num > 0
    /\ analysis.recommendations = <<>>

(***************************************************************************)
(* C15 as stated: of two asset sets of the same size n >= 2, the one with  *)
(* the larger largest allocation share never has the higher                *)
(* diversification score.                                                  *)
(***************************************************************************)
RECURSIVE SumOf(_)
SumOf(values) == IF values = <<>> THEN 0 ELSE Head(values) + SumOf(Tail(values))

RECURSIVE SumOfSquares(_)
SumOfSquares(values) ==
    IF values = <<>> THEN 0 ELSE Head(values) * Head(values) + SumOfSquares(Tail(values))

\* largest share of a >= largest share of b, the shares being value / total
LargestShareGeq(a, b) == SeqMax(a) * SumOf(b) >= SeqMax(b) * SumOf(a)

\* sum of squared shares of a >= sum of squared shares of b
HhiGeq(a, b) ==
    SumOfSquares(a) * SumOf(b) * SumOf(b) >= SumOfSquares(b) * SumOf(a) * SumOf(a)

FieldOf(assets, field) == {assets[i][field] : i \in 1..Len(assets)}

SetMin(S) == CHOOSE x \in S : \A y \in S : x <= y

SetMax(S) == CHOOSE x \in S : \A y \in S : x >= y

C16_WeightedMeanBounds ==
    (met_pc = "done" /\ FLess(FZero, met_metrics.total_value_usd)) =>
        /\ ~FLess(met_metrics.blended_apy, FRatio(SetMin(FieldOf(met_assets, "apy")), 100))
        /\ ~FLess(FRatio(SetMax(FieldOf(met_assets, "apy")), 100), met_metrics.blended_apy)
        /\ met_metrics.overall_risk_score >= SetMin(FieldOf(met_assets, "risk_score"))
        /\ met_metrics.overall_risk_score <= SetMax(FieldOf(met_assets, "risk_score"))
        /\ met_metrics.liquidity_health >= SetMin(FieldOf(met_assets, "liquidity_score"))
        /\ met_metrics.liquidity_health <= SetMax(FieldOf(met_assets, "liquidity_score"))

(***************************************************************************)
(* C20: the score is clamp(round(raw), 0, 100) for raw = max(0, 100 -      *)
(* uptime) x 2 + min(share, 100) x 0.5 + slashing x 0.3 + max(0, 100 -     *)
(* liquidity) x 0.3, rounded to the nearest integer.                       *)
(***************************************************************************)
\* raw, in hundredths
ClaimedRaw100 ==
      Max(0, 10000 - operator_uptime) * 2 + Min(largest_avs_pct, 1000) * 5
    + slashing_score * 30 + Max(0, 100 - liquidity_health) * 30

C20_ScoreIsRoundedRaw ==
    score_pc = "scored" =>
        /\ legacy_result.score = Max(0, Min(100, RoundDiv(ClaimedRaw100, 100)))
        /\ enhanced_result.score = Max(0, Min(100, RoundDiv(ClaimedRaw100, 100)))

(***************************************************************************)
(* C17: a failed source and its siblings in generate_comprehensive_analysis *)
(***************************************************************************)
\* the awaits of lines 382-392 in program order, then the score and the return
FetchOrder ==
    <<"get_uptime", "get_avs", "get_liquidity", "get_distribution", "get_slashing",
      "score", "done">>

FetchIndex(pc) == CHOOSE i \in 1..Len(FetchOrder) : FetchOrder[i] = pc

\* the five fetched values in the order of FetchOrder
FetchedTiles == <<uptime_data, avs_data, liquidity_data, distribution_data, slashing_data>>

AvsSuccessTiles ==
    {get_avs_concentration_data(TRUE, o) : o \in {c \in AvsCallOutcomes : ~c.raises}}

LiquiditySuccessTiles ==
    {get_liquidity_depth_data(TRUE, o) : o \in {c \in LiquidityCallOutcomes : ~c.raises}}

\* the slashing tile a successful calculate_slashing_risk_score gives for an uptime tile
SlashingTileFor(uptime_pct, dvt_enabled) ==
    get_slashing_proxy_data(TRUE, [raises |-> FALSE], uptime_pct, 75, dvt_enabled)

\* the request is in generate_comprehensive_analysis with live clients
InComprehensiveAnalysis ==
    enhanced_available /\ real_data_available /\ risk_pc # "request"

PortfolioFetchOrder ==
    <<"prices", "apy", "risk", "liquidity", "restaking", "build", "done", "again">>

PortfolioFetchIndex(pc) ==
    CHOOSE i \in 1..Len(PortfolioFetchOrder) : PortfolioFetchOrder[i] = pc

PortfolioFetched == <<prices, apy_data, risk_metrics, liquidity_info, restaking_data>>

\* C17 for analyze_portfolio: the five values are set one after the other,
\* each is a value of its own fetch (its fallback included) whatever the other
\* fetches did, and the analysis is built only when all five are set.
C17_PortfolioSiblings ==
    /\ \A i \in 1..5 : IsSet(PortfolioFetched[i]) <=> PortfolioFetchIndex(port_pc) > i
    /\ IsSet(analysis) <=> port_pc \in {"done", "again"}
    /\ IsSet(prices) =>
          prices \in {get_portfolio_prices(analyzer_real_data, o) : o \in PriceCallOutcomes}
    /\ IsSet(apy_data) =>
          apy_data \in {get_apy_data(analyzer_real_data, o) : o \in ApyCallOutcomes}
    /\ IsSet(risk_metrics) =>
          risk_metrics \in {get_risk_metrics(analyzer_real_data, o) : o \in BeaconCallOutcomes}
    /\ IsSet(liquidity_info) =>
          liquidity_info \in {get_liquidity_data(analyzer_real_data, o) :
                                o \in UniswapCallOutcomes}
    /\ IsSet(restaking_data) =>
          restaking_data \in {get_restaking_data(analyzer_real_data, o) :
                                o \in PlainCallOutcomes}

C19_EnhancedReturned ==
    /\ risk_pc = "done"
    /\ enhanced_available
    /\ address # DefaultAddress
    /\ response.address = address
    /\ response.methodology_version = "efi-risk-v2.0-real-data"

(***************************************************************************)
(* C18: a source whose credential or configuration is missing              *)
(***************************************************************************)
\* C18: a fetch of a source whose credential or configuration is missing
\* returns the static fallback of that source and sends no request.
C18_MissingConfigNoNetwork ==
    cfg_return.config_missing =>
        /\ cfg_return.requests = 0
        /\ cfg_return.value = StaticFallback(cfg_return.fn)

\* the same for the sources other than the validator-telemetry client
C18_OtherSourcesShortCircuit ==
    (cfg_return.config_missing /\ cfg_return.fn # "get_validator_performance") =>
        /\ cfg_return.requests = 0
        /\ cfg_return.value = StaticFallback(cfg_return.fn)

(***************************************************************************)
(* C21, C29, C30: the slashing proxy score                                 *)
(***************************************************************************)
\* the partial risks of lines 230-261 on their own scale, before any weight
UptimePartial(uptime) ==
    IF uptime >= 9990 THEN 0 ELSE IF uptime >= 9950 THEN 10
    ELSE IF uptime >= 9900 THEN 20 ELSE 40

DiversityPartial(client_diversity_score) == 100 - client_diversity_score

DvtPartial(dvt_enabled) == IF dvt_enabled THEN 0 ELSE 30

AuditPartial(avs_audit_status) ==
    CASE avs_audit_status = "audited" -> 0
      [] avs_audit_status = "in_progress" -> 15
      [] avs_audit_status = "mixed" -> 10
      [] avs_audit_status = "none" -> 30
      [] OTHER -> 15

\* 0.4 x uptime + 0.2 x client diversity + 0.2 x dvt + 0.2 x audit, in thousandths
WeightedPartials1000 ==
      400 * UptimePartial(sl_uptime) + 200 * DiversityPartial(sl_diversity)
    + 200 * DvtPartial(sl_dvt) + 200 * AuditPartial(sl_audit)

\* C21: the proxy score of calculate_slashing_risk_score is the weighted sum
\* 0.4 x uptime partial + 0.2 x client-diversity partial + 0.2 x dvt partial
\* + 0.2 x audit partial, client diversity weighing exactly 20%.
C21_WeightedSum ==
    IsSet(sl_client) => sl_client.proxy_score = TruncDiv(WeightedPartials1000, 1000)

\* the same with client diversity weighing 0.2 x 0.2, as lines 245-249 compute it
C21_DiversityWeighedTwice ==
    IsSet(sl_client) =>
        sl_client.proxy_score =
            TruncDiv(WeightedPartials1000 - 160 * DiversityPartial(sl_diversity), 1000)

BandMatchesScore(tile) ==
    /\ tile.operator_uptime_band = "Green" <=> tile.proxy_score = 18
    /\ tile.operator_uptime_band = "Amber" <=> tile.proxy_score = 28
    /\ tile.operator_uptime_band = "Red" <=> tile.proxy_score = 43

\* C29: in both legacy computations the uptime band and the score agree:
\* Green iff 18, Amber iff 28, Red iff 43, also at exactly 99.5 and 99.0.
C29_BandMatchesScore ==
    sl_pc = "done" =>
        /\ BandMatchesScore(sl_legacy.no_client)
        /\ BandMatchesScore(sl_legacy.risk_analysis)

\* the same away from the two thresholds
C29_BandMatchesScoreOffThreshold ==
    (sl_pc = "done" /\ sl_uptime \notin {9950, 9900}) =>
        /\ BandMatchesScore(sl_legacy.no_client)
        /\ BandMatchesScore(sl_legacy.risk_analysis)

\* C30: with the clients available the slashing proxy score the analyzer
\* obtains is at most 30 for every uptime and DVT flag, so the reasons of
\* calculate_overall_risk_score never hold "Elevated slashing risk score".
C30_SlashingAtMost30 ==
    IsSet(sl_tile) =>
        /\ sl_tile.proxy_score <= 30
        /\ \A share \in {0, 460, 1000}, liquidity \in {0, 75, 100} :
             \A i \in DOMAIN ReasonsOf(sl_uptime, share, sl_tile.proxy_score, liquidity) :
                ReasonsOf(sl_uptime, share, sl_tile.proxy_score, liquidity)[i]
                    # "Elevated slashing risk score"

\* the largest score of that path: uptime below 99.0 without DVT
C30_Witness ==
    /\ IsSet(sl_tile)
    /\ sl_uptime < 9900
    /\ ~sl_dvt
    /\ sl_tile = calculate_slashing_risk_score(sl_uptime, 75, FALSE, "mixed")
    /\ sl_tile.proxy_score = 25

(***************************************************************************)
(* C22, C24: liquidity health index and pool slippage                      *)
(***************************************************************************)
\* C22: the liquidity health index is the same 60/40 blend of depth and
\* slippage on the legacy and on the enhanced path: for the same venues the
\* two paths give the same index.
C22_SameHealthIndex ==
    (lq_pc = "done" /\ lq_pools = <<>>) => lq_enhanced_index = lq_legacy_index

\* C24: for one fee tier slippage_bps is non-increasing in pool depth over
\* all depths >= 0, and best_pool is never the strictly shallower pool.
C24_MonotoneInDepth ==
    (lq_pc = "done" /\ lq_pools # <<>>) =>
        /\ \A i, j \in 1..2 :
              lq_pools[i].tvl <= lq_pools[j].tvl =>
                  lq_details.pools[i].slippage_bps >= lq_details.pools[j].slippage_bps
        /\ \A i \in 1..2 : lq_details.best_pool.tvl_usd >= lq_pools[i].tvl

\* the same over the pools of positive depth
C24_MonotoneForPositiveDepth ==
    (lq_pc = "done" /\ lq_pools # <<>> /\ \A i \in 1..2 : lq_pools[i].tvl > 0) =>
        /\ \A i, j \in 1..2 :
              lq_pools[i].tvl <= lq_pools[j].tvl =>
                  lq_details.pools[i].slippage_bps >= lq_details.pools[j].slippage_bps
        /\ \A i \in 1..2 :
              lq_details.best_pool.slippage_bps <= lq_details.pools[i].slippage_bps

(***************************************************************************)
(* C23: the diversification score as a rounded value                       *)
(***************************************************************************)
\* round((1 - hhi) * 100) with hhi the exact sum of squared value fractions
RoundedDiversification(values) ==
    RoundDiv((SumOf(values) * SumOf(values) - SumOfSquares(values)) * 100,
             SumOf(values) * SumOf(values))

\* C23: for two or more held assets the diversification score is
\* round((1 - hhi) * 100), rounding to the nearest integer; two equal
\* holdings score 50.
C23_RoundedDiversification ==
    div_pc = "scored" =>
        /\ div_a = RoundedDiversification(values_a)
        /\ div_b = RoundedDiversification(values_b)

\* two equal holdings score 50
C23_EqualHoldingsScore50 ==
    (div_pc = "scored" /\ Len(values_a) = 2 /\ values_a[1] = values_a[2]) => div_a = 50

(***************************************************************************)
(* C25: a stored value is served until it is CACHE_TTL old                 *)
(***************************************************************************)
\* C25: once a value is stored under a key, a lookup of that key made less
\* than CACHE_TTL later returns it and starts no upstream call, whatever the
\* value is: a caller only fetches after finding no entry or an expired one.
C25_StoredValueServed ==
    \A c \in Callers :
        caller_pc[c].state = "fetching" => caller_pc[c].miss \in {"absent", "expired"}

\* a fresh entry is passed over only by get_eth_price (a stored price of 0);
\* the APY dict is never false
C25_OnlyFalsyPricePassedOver ==
    \A c \in Callers :
        (caller_pc[c].state = "fetching" /\ caller_pc[c].miss = "falsy") =>
            caller_pc[c].key = "eth_price"

(***************************************************************************)
(* C26: every product of ETHERFI_CONTRACTS is served by the v2 endpoints   *)
(***************************************************************************)
UpstreamSucceeded == ep_prices = ContractKeys /\ ep_pools = ContractKeys

NotFound(answer) == answer.status_code = 404 /\ answer.detail = "Product not found"

\* C26: for each key of ETHERFI_CONTRACTS the per-product endpoints do not
\* answer 404 "Product not found", and GET /summary returns exactly one
\* summary per product when the upstream calls succeeded.
C26_EveryProductServed ==
    /\ (ep_pc # "request" /\ ep_product \in ContractKeys) => ~NotFound(ep_live)
    /\ (ep_pc \in {"summary", "done"} /\ ep_product \in ContractKeys) =>
           ~NotFound(ep_summary)
    /\ (ep_pc = "done" /\ UpstreamSucceeded) =>
           /\ Len(ep_summaries) = Len(ETHERFI_CONTRACTS)
           /\ \A i \in DOMAIN ETHERFI_CONTRACTS :
                  ep_summaries[i].product = ETHERFI_CONTRACTS[i]

\* what the code does: a path is accepted exactly when its upper-case form is
\* a key, which of the four keys only ETHFI is; GET /summary returns ETHFI alone
C26_OnlyUpperCaseKeyServed ==
    /\ ep_pc # "request" => (NotFound(ep_live) <=> upper(ep_product) # ETHFI)
    /\ ep_pc \in {"summary", "done"} =>
           (NotFound(ep_summary) <=> upper(ep_product) # ETHFI)
    /\ ep_pc = "done" =>
           /\ Len(ep_summaries) = 1
           /\ ep_summaries[1].product = ETHFI

(***************************************************************************)
(* C27: stop() ends the loop of start()                                     *)
(***************************************************************************)
\* C27: once stop() has been called, run_fetch_cycle is not called again,
\* also when stop() is called while start() sleeps between two cycles.
C27_NoCycleAfterStop == df_stop.called => df_cycles = df_stop.cycles

\* stop() during a cycle ends the loop after that cycle; stop() during the
\* sleep is followed by exactly one more cycle, after which the loop exits
C27_AtMostOneCycleAfterStop ==
    df_stop.called =>
        /\ df_stop.pc # "sleeping" => df_cycles = df_stop.cycles
        /\ df_cycles <= df_stop.cycles + 1
        /\ df_cycles > df_stop.cycles => df_pc # "sleeping"

(***************************************************************************)
(* C28: a failed insert is rolled back and does not affect the other rows   *)
(***************************************************************************)
\* C28: within a fetch cycle a refused insert is rolled back, the rows
\* committed before it stay, every later row that the table accepts is
\* stored, and no two rows of a table have the same unique key.
C28_FailedInsertIsolated ==
    /\ \A r1 \in df_rows, r2 \in df_rows : UniqueKey(r1) = UniqueKey(r2) => r1 = r2
    /\ \A i \in DOMAIN df_log :
          LET entry == df_log[i]
          IN  /\ entry.outcome # "stored" => entry.after = entry.before
              /\ entry.outcome = "stored" => entry.after = entry.before \cup {entry.row}
              /\ entry.outcome # "skipped" =>
                     (entry.outcome = "stored" <=> ~Violates(entry.row, entry.before))
              /\ i > 1 => entry.before = df_log[i - 1].after
              /\ entry.after \subseteq df_rows
    /\ df_pc \in {"init", "sleeping", "exited"} => df_session = NewSession

\* a cycle stored a row, then had a duplicate refused, then stored another row
C28_Witness ==
    \E i \in DOMAIN df_log, j \in DOMAIN df_log, k \in DOMAIN df_log :
        /\ i < j /\ j < k
        /\ df_log[i].outcome = "stored"
        /\ df_log[j].outcome = "rolled_back" /\ ~IsNone(df_log[j].row.timestamp)
        /\ df_log[k].outcome = "stored"
        /\ df_log[i].row \in df_rows /\ df_log[k].row \in df_rows

====
